---- MODULE Spec2Model ----
(***************************************************************************)
(* The Gigi render-graph interpreter (IGigiInterpreter and its             *)
(* VariableStorage): Compile, Execute, Clear, the SetVariable engine, the  *)
(* condition evaluator and the host-facing variable accessors.             *)
(*                                                                         *)
(* Conventions.                                                            *)
(*  - Indices stored in graph records are the C++ ones: 0-based, -1 for    *)
(*    "unset".  At(s, i) reads element i of a 0-based list.                *)
(*  - Text (std::string / const char* ) is a sequence of one-character     *)
(*    strings.                                                             *)
(*  - A 32-bit component (int, unsigned int) is kept as its two's          *)
(*    complement bit pattern, written as the signed number in              *)
(*    -2^31 .. 2^31-1; unsigned arithmetic is done on 16-bit limbs so that *)
(*    it wraps modulo 2^32.  uint16_t is 0..65535, bool is 0 or 1.         *)
(***************************************************************************)
EXTENDS Integers, Sequences, FiniteSets, TLC

VARIABLES
    m_compileResult,      \* GigiCompileResult stored by the last GigiCompile
    m_renderGraph,        \* the RenderGraph the interpreter holds
    m_runtimeVariables,   \* std::vector<RuntimeVariable>
    m_variableStorage,    \* VariableStorage::m_storage, keyed by <<name, type>>
    m_RuntimeData,        \* the per-kind registries, keyed by <<kind, name>>
    lastCall,             \* the host call that produced this state, and what it returned
    trace,                \* what that call did, in order
    lastCompileRet,       \* what the most recent Compile returned ("None" before any)
    frames,               \* host calls so far that changed variable values (Execute, SetRuntimeVariable...)
    sinceFresh,           \* Execute calls that ran since a Compile created all storage anew (-1: n/a)
    files,                \* the graphs the host has files for
    m_tempDirectory,      \* the scratch directory's path ("" until the first Compile)
    disk,                 \* the directories that exist, each with the artifacts in it
    s_allContexts,        \* boxblur: the contexts of the generated technique, in creation order
    shared,               \* boxblur: the shared objects (static pointers and heaps) that are not null
    gpu                   \* boxblur: the state each texture of a context is in on the GPU

vars == <<m_compileResult, m_renderGraph, m_runtimeVariables, m_variableStorage,
          m_RuntimeData, lastCall, trace, lastCompileRet, frames, sinceFresh, files,
          m_tempDirectory, disk, s_allContexts, shared, gpu>>

(***************************************************************************)
(* Bounds of the model.                                                    *)
(***************************************************************************)
MaxFrames == 3

\* The contexts of the generated technique alive at one time.
MaxContexts == 2

(***************************************************************************)
(* 0-based lists.                                                          *)
(***************************************************************************)
At(s, i) == s[i + 1]

InRange(s, i) == i >= 0 /\ i < Len(s)

\* The element of a one-element set.  Only({F(x) : x \in {e}}) is F(e) with e
\* evaluated once, which is how intermediate results are named below.
Only(S) == CHOOSE x \in S : TRUE

(***************************************************************************)
(* 32-bit words on 16-bit limbs.                                           *)
(***************************************************************************)
Lo16(x) == x % 65536

Hi16(x) == (x \div 65536) % 65536

FromLimbs(h, l) == IF h >= 32768 THEN (h - 65536) * 65536 + l ELSE h * 65536 + l

\* The least int, also the bit pattern of the uint32_t 2^31.
IntMin == -2147483647 - 1

\* The 32-bit product of two 16-bit numbers, as <<high limb, low limb>>.
Mul16(x, y) ==
    LET p0 == x * (y % 256)
        p1 == x * (y \div 256)
        t  == p0 + (p1 % 256) * 256
    IN  <<(p1 \div 256) + (t \div 65536), t % 65536>>

AddWrap32(a, b) ==
    LET lo == Lo16(a) + Lo16(b)
        hi == (Hi16(a) + Hi16(b) + (lo \div 65536)) % 65536
    IN  FromLimbs(hi, lo % 65536)

SubWrap32(a, b) ==
    LET lo == Lo16(a) - Lo16(b)
        hi == (Hi16(a) - Hi16(b) + (lo \div 65536)) % 65536
    IN  FromLimbs(hi, lo % 65536)

MulWrap32(a, b) ==
    Only({FromLimbs((m[1] + Mul16(Hi16(a), Lo16(b))[2] + Mul16(Lo16(a), Hi16(b))[2]) % 65536, m[2]) :
            m \in {Mul16(Lo16(a), Lo16(b))}})

\* a < b for the unsigned numbers the patterns a and b stand for.
LtU32(a, b) == IF (a < 0) = (b < 0) THEN a < b ELSE b < 0

\* Unsigned a / b, b # 0.
DivU32(a, b) ==
    IF b < 0 THEN (IF ~LtU32(a, b) THEN 1 ELSE 0)
    ELSE IF a >= 0 THEN a \div b
    ELSE LET half == ((a + 2147483647) + 1) \div 2 + 1073741824
         IN  Only({IF ~LtU32(SubWrap32(a, MulWrap32(q0, b)), b) THEN q0 + 1 ELSE q0 :
                     q0 \in {AddWrap32(half \div b, half \div b)}})

\* C++ signed division truncates toward zero.
DivS32(a, b) ==
    IF b = IntMin THEN (IF a = IntMin THEN 1 ELSE 0)
    ELSE IF a = IntMin
         THEN Only({IF b < 0 \/ q = IntMin THEN q ELSE -q :
                      q \in {DivU32(IntMin, IF b < 0 THEN -b ELSE b)}})
    ELSE IF a >= 0 /\ b > 0 THEN a \div b
    ELSE IF a < 0 /\ b < 0 THEN (-a) \div (-b)
    ELSE IF a < 0 THEN -((-a) \div b)
    ELSE -(a \div (-b))

(***************************************************************************)
(* Data field types: component count and component type of each            *)
(* DataFieldType the model covers (the integer and bool families).         *)
(***************************************************************************)
DataFieldTypeInfo(type) ==
    CASE type = "Int"     -> [componentCount |-> 1, componentType2 |-> "Int"]
      [] type = "Int2"    -> [componentCount |-> 2, componentType2 |-> "Int"]
      [] type = "Int3"    -> [componentCount |-> 3, componentType2 |-> "Int"]
      [] type = "Int4"    -> [componentCount |-> 4, componentType2 |-> "Int"]
      [] type = "Uint"    -> [componentCount |-> 1, componentType2 |-> "Uint"]
      [] type = "Uint2"   -> [componentCount |-> 2, componentType2 |-> "Uint"]
      [] type = "Uint3"   -> [componentCount |-> 3, componentType2 |-> "Uint"]
      [] type = "Uint4"   -> [componentCount |-> 4, componentType2 |-> "Uint"]
      [] type = "Bool"    -> [componentCount |-> 1, componentType2 |-> "Bool"]
      [] type = "Uint_16" -> [componentCount |-> 1, componentType2 |-> "Uint_16"]

Zeros(n) == [i \in 1..n |-> 0]

(***************************************************************************)
(* Text.                                                                   *)
(***************************************************************************)
UpperCase == <<"A", "B", "C", "D", "E", "F", "G", "H", "I", "J", "K", "L", "M",
               "N", "O", "P", "Q", "R", "S", "T", "U", "V", "W", "X", "Y", "Z">>

LowerCase == <<"a", "b", "c", "d", "e", "f", "g", "h", "i", "j", "k", "l", "m",
               "n", "o", "p", "q", "r", "s", "t", "u", "v", "w", "x", "y", "z">>

DecimalDigits == <<"0", "1", "2", "3", "4", "5", "6", "7", "8", "9">>

ToLower(c) ==
    IF \E i \in DOMAIN UpperCase : UpperCase[i] = c
    THEN LowerCase[CHOOSE i \in DOMAIN UpperCase : UpperCase[i] = c]
    ELSE c

ToLowerText(t) == [i \in 1..Len(t) |-> ToLower(t[i])]

IsDigit(c) == \E i \in DOMAIN DecimalDigits : DecimalDigits[i] = c

DigitVal(c) == (CHOOSE i \in DOMAIN DecimalDigits : DecimalDigits[i] = c) - 1

RECURSIVE SkipSpaces(_)
SkipSpaces(t) == IF t # <<>> /\ Head(t) = " " THEN SkipSpaces(Tail(t)) ELSE t

\* The leading decimal digits of t as a 32-bit word.
RECURSIVE DigitsValue(_, _)
DigitsValue(t, acc) ==
    IF t = <<>> \/ ~IsDigit(Head(t)) THEN acc
    ELSE Only({DigitsValue(Tail(t), v) : v \in {AddWrap32(MulWrap32(acc, 10), DigitVal(Head(t)))}})

\* The comma-separated fields of a text.
RECURSIVE SplitCommas(_, _, _)
SplitCommas(t, cur, acc) ==
    IF t = <<>> THEN Append(acc, cur)
    ELSE IF Head(t) = "," THEN SplitCommas(Tail(t), <<>>, Append(acc, cur))
    ELSE SplitCommas(Tail(t), Append(cur, Head(t)), acc)

ParseComponent(tok, T) ==
    LET t == SkipSpaces(tok)
    IN  CASE T = "Bool"    -> IF ToLowerText(t) = <<"t", "r", "u", "e">> THEN 1 ELSE 0
          [] T = "Int"     -> IF t # <<>> /\ Head(t) = "-"
                              THEN SubWrap32(0, DigitsValue(Tail(t), 0))
                              ELSE DigitsValue(t, 0)
          [] T = "Uint"    -> DigitsValue(t, 0)
          [] T = "Uint_16" -> DigitsValue(t, 0) % 65536

\* VariableStorage::SetFromString(text, count, T* value): the count components
\* parsed from a comma-separated text.
SetFromString(text, count, T) ==
    Only({[i \in 1..count |-> IF i <= Len(toks) THEN ParseComponent(toks[i], T) ELSE 0] :
            toks \in {SplitCommas(text, <<>>, <<>>)}})

\* sprintf_s("%u") of the unsigned number a 32-bit pattern stands for.
RECURSIVE FormatU32(_)
FormatU32(x) ==
    Only({LET d == SubWrap32(x, MulWrap32(q, 10))
          IN  IF q = 0 THEN <<DecimalDigits[d + 1]>> ELSE Append(FormatU32(q), DecimalDigits[d + 1]) :
            q \in {DivU32(x, 10)}})

\* The decimal text of a signed 32-bit word.
FormatSigned(x) == IF x < 0 THEN <<"-">> \o FormatU32(SubWrap32(0, x)) ELSE FormatU32(x)

FormatComponent(x, T) ==
    CASE T = "Bool"    -> IF x # 0 THEN <<"t", "r", "u", "e">> ELSE <<"f", "a", "l", "s", "e">>
      [] T = "Int"     -> FormatSigned(x)
      [] T = "Uint"    -> FormatU32(x)
      [] T = "Uint_16" -> FormatU32(x)

\* VariableStorage::GetAsString(count, T* value): the components, separated by ", ".
RECURSIVE GetAsString(_, _, _)
GetAsString(count, value, T) ==
    IF count = 0 THEN <<>>
    ELSE IF count = 1 THEN FormatComponent(value[1], T)
    ELSE GetAsString(count - 1, value, T) \o <<",", " ">> \o FormatComponent(value[count], T)

StringBeginsWithCaseInsensitive(hayStack, needle) ==
    /\ Len(needle) <= Len(hayStack)
    /\ \A i \in 1..Len(needle) : ToLower(hayStack[i]) = ToLower(needle[i])

\* EnumLabelToValue comparing the labels with strcmp.
EnumLabelToValue_CaseSensitive(e, label) ==
    LET enumPrefix   == e.originalName \o <<":", ":">>
        literalValue == IF StringBeginsWithCaseInsensitive(label, enumPrefix)
                        THEN SubSeq(label, Len(enumPrefix) + 1, Len(label))
                        ELSE label
        hits         == {i \in 1..Len(e.items) : literalValue = e.items[i].label}
    IN  IF hits = {} THEN -1 ELSE (CHOOSE i \in hits : \A j \in hits : i <= j) - 1

\* returns -1 if there was a problem
EnumLabelToValue(e, label) ==
    LET enumPrefix   == e.originalName \o <<":", ":">>
        literalValue == IF StringBeginsWithCaseInsensitive(label, enumPrefix)
                        THEN SubSeq(label, Len(enumPrefix) + 1, Len(label))
                        ELSE label
        hits         == {i \in 1..Len(e.items) : ToLowerText(literalValue) = ToLowerText(e.items[i].label)}
    IN  IF hits = {} THEN -1 ELSE (CHOOSE i \in hits : \A j \in hits : i <= j) - 1

(***************************************************************************)
(* The typed operations.                                                   *)
(***************************************************************************)
\* DoOp<bool>: the arithmetic operators have no case and leave dest alone.
\* DoOp<bool> with BitwiseXor doing BitwiseOr's work.
DoOpBool_XorIsOr(A, B, dest, op) ==
    CASE op \in {"BitwiseOr", "BitwiseXor"} -> IF A # 0 \/ B # 0 THEN 1 ELSE 0
      [] op = "BitwiseAnd" -> IF A # 0 /\ B # 0 THEN 1 ELSE 0
      [] op = "BitwiseNot" -> IF A # 0 THEN 0 ELSE 1
      [] op = "Noop"       -> A
      [] op \in {"Add", "Subtract", "Multiply", "Divide", "Modulo", "PowerOf2GE"} -> dest

DoOpBool(A, B, dest, op) ==
    CASE op = "BitwiseOr"  -> IF A # 0 \/ B # 0 THEN 1 ELSE 0
      [] op = "BitwiseAnd" -> IF A # 0 /\ B # 0 THEN 1 ELSE 0
      [] op = "BitwiseXor" -> IF (A # 0) # (B # 0) THEN 1 ELSE 0
      [] op = "BitwiseNot" -> IF A # 0 THEN 0 ELSE 1
      [] op = "Noop"       -> A
      [] op \in {"Add", "Subtract", "Multiply", "Divide", "Modulo", "PowerOf2GE"} -> dest

\* The number of bits of a 32-bit word read as unsigned.
BitLength(x) ==
    IF x < 0 THEN 32
    ELSE IF x = 0 THEN 0
    ELSE CHOOSE n \in 1..31 : 2 ^ (n - 1) <= x /\ (n = 31 \/ x < 2 ^ n)

\* float(A) for A read as unsigned: the value m * 2^e with m of at most 24
\* bits, rounded to nearest, ties to even.
ToFloat(x) ==
    LET n    == BitLength(x)
        s    == IF n > 24 THEN n - 24 ELSE 0
        m0   == IF s = 0 THEN x ELSE Hi16(x) * (2 ^ (16 - s)) + Lo16(x) \div (2 ^ s)
        rem  == IF s = 0 THEN 0 ELSE Lo16(x) % (2 ^ s)
        half == IF s = 0 THEN 1 ELSE 2 ^ (s - 1)
    IN  [m |-> IF s > 0 /\ (rem > half \/ (rem = half /\ m0 % 2 = 1)) THEN m0 + 1 ELSE m0,
         e |-> s]

\* ceilf(log2(f)) for f > 0: log2 of a power of two is exact, and of any other
\* f lies strictly between two integers.
CeilLog2(f) ==
    LET n == BitLength(f.m)
    IN  IF f.m = 2 ^ (n - 1) THEN n - 1 + f.e ELSE n + f.e

\* The largest k for which (T)pow(2.0f, k) is a value of T.
MaxExponent(T) == CASE T = "Uint" -> 31 [] T = "Int" -> 30 [] T = "Uint_16" -> 15

\* The operations of DoOp<T> whose behaviour C++ leaves undefined: INT_MIN / -1,
\* A % 0 and INT_MIN % -1 (Modulo has no guard), and the conversion to T of a
\* float that is not a number or is out of T's range.
UndefinedOp(A, B, op, T) ==
    \/ op = "Divide" /\ T = "Int" /\ A = IntMin /\ B = -1
    \/ op = "Modulo" /\ T \in {"Int", "Uint", "Uint_16"} /\ B = 0
    \/ op = "Modulo" /\ T = "Int" /\ A = IntMin /\ B = -1
    \/ op = "PowerOf2GE" /\ T = "Int" /\ A < 0
    \/ /\ op = "PowerOf2GE" /\ T \in {"Int", "Uint", "Uint_16"}
       /\ ~(T = "Int" /\ A < 0) /\ A # 0 /\ CeilLog2(ToFloat(A)) > MaxExponent(T)

\* The PowerOf2GE case of DoOp<T>: (T)pow(2.0f, ceilf(log2(float(A)))).
PowerOf2GE(A, T) ==
    IF A = 0 THEN 0
    ELSE Only({IF k = 31 THEN IntMin ELSE 2 ^ k : k \in {CeilLog2(ToFloat(A))}})

\* A % B for B # 0: what is left of A after the truncated quotient times B.
Remainder(A, B, T) ==
    CASE T = "Uint"    -> SubWrap32(A, MulWrap32(DivU32(A, B), B))
      [] T = "Int"     -> SubWrap32(A, MulWrap32(DivS32(A, B), B))
      [] T = "Uint_16" -> A % B

\* DoOp<T> with the Multiply case doing Add's work.
DoOpInteger_MultiplyAdds(A, B, dest, op, T, garbage) ==
    CASE op \in {"Add", "Multiply"} -> IF T = "Uint_16" THEN (A + B) % 65536 ELSE AddWrap32(A, B)
      [] op = "Subtract" -> IF T = "Uint_16" THEN (A - B) % 65536 ELSE SubWrap32(A, B)
      [] op = "Divide"   -> IF B # 0
                            THEN (CASE T = "Uint"    -> DivU32(A, B)
                                    [] T = "Int"     -> DivS32(A, B)
                                    [] T = "Uint_16" -> A \div B)
                            ELSE 0
      [] op = "Noop"     -> A

\* The generic DoOp<T> for int, uint32_t and uint16_t (uint16_t operands are
\* promoted to int and the result is truncated on assignment).  Where the
\* behaviour is undefined the destination holds whatever the build leaves there.
DoOpInteger(A, B, dest, op, T, garbage) ==
    IF UndefinedOp(A, B, op, T) THEN garbage
    ELSE CASE op = "Add"      -> IF T = "Uint_16" THEN (A + B) % 65536 ELSE AddWrap32(A, B)
           [] op = "Subtract" -> IF T = "Uint_16" THEN (A - B) % 65536 ELSE SubWrap32(A, B)
           [] op = "Multiply" -> IF T = "Uint_16" THEN Lo16(MulWrap32(A, B)) ELSE MulWrap32(A, B)
           [] op = "Divide"   -> IF B # 0
                                 THEN (CASE T = "Uint"    -> DivU32(A, B)
                                         [] T = "Int"     -> DivS32(A, B)
                                         [] T = "Uint_16" -> A \div B)
                                 ELSE 0
           [] op = "Modulo"   -> Remainder(A, B, T)
           [] op = "PowerOf2GE" -> PowerOf2GE(A, T)
           [] op = "Noop"     -> A

\* The operand pairs of DoOp<float> whose result is a whole number again: no
\* division by zero, no inexact quotient, no logarithm of zero or less.
FloatWhole(A, B, op) ==
    /\ op = "Divide" => (B # 0 /\ A % (IF B < 0 THEN -B ELSE B) = 0)
    /\ op = "Modulo" => B # 0
    /\ op = "PowerOf2GE" => A > 0

\* DoOp<float> with the bitwise operators copying A.
DoOpFloat_BitwiseCopiesA(A, B, dest, op) ==
    CASE op = "Add"      -> A + B
      [] op = "Subtract" -> A - B
      [] op = "Multiply" -> A * B
      [] op = "Divide" /\ FloatWhole(A, B, op) -> A \div B
      [] op = "Modulo" /\ FloatWhole(A, B, op) ->
             LET a == IF A < 0 THEN -A ELSE A
                 b == IF B < 0 THEN -B ELSE B
             IN  IF A < 0 THEN -(a % b) ELSE a % b
      [] op = "PowerOf2GE" /\ FloatWhole(A, B, op) -> 2 ^ CeilLog2([m |-> A, e |-> 0])
      [] op \in {"Noop", "BitwiseOr", "BitwiseAnd", "BitwiseXor", "BitwiseNot"} -> A

\* DoOp<float>, on floats that are whole numbers of magnitude below 2^24, for
\* which +, -, *, an exact quotient, fmod and a power of two are computed
\* without rounding.  The bitwise operators have no case in the switch.
DoOpFloat(A, B, dest, op) ==
    CASE op = "Add"      -> A + B
      [] op = "Subtract" -> A - B
      [] op = "Multiply" -> A * B
      [] op = "Divide" /\ FloatWhole(A, B, op) -> A \div B
      [] op = "Modulo" /\ FloatWhole(A, B, op) ->
             LET a == IF A < 0 THEN -A ELSE A
                 b == IF B < 0 THEN -B ELSE B
             IN  IF A < 0 THEN -(a % b) ELSE a % b
      [] op = "PowerOf2GE" /\ FloatWhole(A, B, op) -> 2 ^ CeilLog2([m |-> A, e |-> 0])
      [] op = "Noop"     -> A
      [] op \in {"BitwiseOr", "BitwiseAnd", "BitwiseXor", "BitwiseNot"} -> dest

DoOp(A, B, dest, op, T, garbage) ==
    CASE T = "Bool"  -> DoOpBool(A, B, dest, op)
      [] T = "Float" -> DoOpFloat(A, B, dest, op)
      [] OTHER       -> DoOpInteger(A, B, dest, op, T, garbage)

DoComparison(A, B, op, T) ==
    LET lt(x, y) == IF T = "Uint" THEN LtU32(x, y) ELSE x < y
    IN  CASE op = "IsTrue"    -> A # 0
          [] op = "IsFalse"   -> A = 0
          [] op = "Equals"    -> A = B
          [] op = "NotEquals" -> A # B
          [] op = "LT"        -> lt(A, B)
          [] op = "LTE"       -> ~lt(B, A)
          [] op = "GT"        -> lt(B, A)
          [] op = "GTE"       -> ~lt(A, B)
          [] OTHER            -> FALSE

(***************************************************************************)
(* The interpreter's state as one record I (the member variables), so that *)
(* each method is an operator from the state before to the state after.    *)
(***************************************************************************)
\* RenderGraph(): the default-constructed graph.
EmptyGraph == [variables |-> <<>>, enums |-> <<>>, nodes |-> <<>>, flattenedNodeList |-> <<>>, setVars |-> <<>>]

\* One entry of the call log.  a, b are numbers, r a result, the rest values read or written.
Event(e, a, b, r) == [e |-> e, a |-> a, b |-> b, r |-> r, A |-> <<>>, B |-> <<>>, D |-> <<>>, c1 |-> <<>>, c2 |-> <<>>]

\* TupleCache<T, std::string>: a default-constructed runtime data record.
DefaultRuntimeData == [m_size |-> <<0, 0, 0>>, m_count |-> 0]

\* TupleCache::GetOrCreate(name), for the registry of one node kind.
GetOrCreate(rd, kind, name) ==
    IF <<kind, name>> \in DOMAIN rd THEN rd ELSE rd @@ (<<kind, name>> :> DefaultRuntimeData)

\* TupleCache::Get(name, exists): the existence flag.
RuntimeDataExists(rd, kind, name) == <<kind, name>> \in DOMAIN rd

GetRuntimeVariable(I, index) == At(I.m_runtimeVariables, index)

\* The bytes storage.value points at: the current value, with the default value
\* packed right after it in the same allocation.
StorageBytes(I, index) ==
    LET st == I.m_variableStorage[GetRuntimeVariable(I, index).storage]
    IN  st.value \o st.dflt

CurrentValue(I, index) == I.m_variableStorage[GetRuntimeVariable(I, index).storage].value

\* A Get that copies the parsed default over the current value every time.
VariableStorageGet_AlwaysCopies(vs, variable) ==
    LET info == DataFieldTypeInfo(variable.type)
        key  == <<variable.name, variable.type>>
        dflt == SetFromString(variable.dflt, info.componentCount, info.componentType2)
    IN  IF key \in DOMAIN vs
        THEN [vs EXCEPT ![key] = [value |-> dflt, dflt |-> dflt]]
        ELSE vs @@ (key :> [value |-> dflt, dflt |-> dflt])

\* VariableStorage::Get(variable, count, T* ): creates the storage if it is new,
\* parses the default every time, copies it to the value only when new.
VariableStorageGet(vs, variable) ==
    LET info == DataFieldTypeInfo(variable.type)
        key  == <<variable.name, variable.type>>
        dflt == SetFromString(variable.dflt, info.componentCount, info.componentType2)
    IN  IF key \in DOMAIN vs
        THEN [vs EXCEPT ![key].dflt = dflt]
        ELSE vs @@ (key :> [value |-> dflt, dflt |-> dflt])

RECURSIVE CreateStorageFrom(_, _, _)
CreateStorageFrom(vs, variables, i) ==
    IF i > Len(variables) THEN vs
    ELSE CreateStorageFrom(VariableStorageGet(vs, variables[i]), variables, i + 1)

\* IGigiInterpreter::CreateVariableStorage
CreateVariableStorage(I, renderGraph) ==
    [I EXCEPT !.m_runtimeVariables =
                  [i \in 1..Len(renderGraph.variables) |->
                      [variable |-> renderGraph.variables[i],
                       storage  |-> <<renderGraph.variables[i].name, renderGraph.variables[i].type>>]],
              !.m_variableStorage = CreateStorageFrom(I.m_variableStorage, renderGraph.variables, 1)]

(***************************************************************************)
(* Conditions.                                                             *)
(***************************************************************************)
\* EvaluateConditionTyped reducing the components with "or".
EvaluateConditionTyped_Any(condition, A, B0, componentCount, T) ==
    LET B == IF condition.variable2Index = -1
             THEN SetFromString(condition.value2, componentCount, T)
             ELSE B0
    IN  \E i \in 1..componentCount : DoComparison(A[i], B[i], condition.comparison, T)

EvaluateConditionTyped(condition, A, B0, componentCount, T) ==
    LET B == IF condition.variable2Index = -1
             THEN SetFromString(condition.value2, componentCount, T)
             ELSE B0
    IN  \A i \in 1..componentCount : DoComparison(A[i], B[i], condition.comparison, T)

\* The right-hand value of an enum comparison: its first component is what
\* EnumLabelToValue returns for the literal, whatever that is.
EnumRightHand(I, condition, B0) ==
    LET e == At(I.m_renderGraph.enums, At(I.m_renderGraph.variables, condition.variable1Index).enumIndex)
    IN  [B0 EXCEPT ![1] = EnumLabelToValue(e, condition.value2)]

EvaluateConditionTyped_Enum(I, condition, A, B0, componentCount) ==
    LET B == EnumRightHand(I, condition, B0)
    IN  \A i \in 1..componentCount : DoComparison(A[i], B[i], condition.comparison, "Int")

EvaluateCondition_NoCountCheck(I, condition) ==
    IF condition.alwaysFalse THEN FALSE
    ELSE IF condition.variable1Index = -1 THEN TRUE
    ELSE LET v1   == At(I.m_renderGraph.variables, condition.variable1Index)
             info == DataFieldTypeInfo(v1.type)
             A    == StorageBytes(I, condition.variable1Index)
             B0   == IF condition.variable2Index # -1
                     THEN StorageBytes(I, condition.variable2Index)
                     ELSE Zeros(info.componentCount)
         IN  IF info.componentType2 = "Int" /\ v1.enumIndex # -1 /\ condition.variable2Index = -1
             THEN EvaluateConditionTyped_Enum(I, condition, A, B0, info.componentCount)
             ELSE EvaluateConditionTyped(condition, A, B0, info.componentCount, info.componentType2)

\* EvaluateCondition testing for an unset variable1 or comparison first.
EvaluateCondition_VacuousFirst(I, condition) ==
    IF condition.variable1Index = -1 \/ condition.comparison = "Count" THEN TRUE
    ELSE IF condition.alwaysFalse THEN FALSE
    ELSE LET v1   == At(I.m_renderGraph.variables, condition.variable1Index)
             info == DataFieldTypeInfo(v1.type)
             A    == StorageBytes(I, condition.variable1Index)
             B0   == IF condition.variable2Index # -1
                     THEN StorageBytes(I, condition.variable2Index)
                     ELSE Zeros(info.componentCount)
         IN  IF info.componentType2 = "Int" /\ v1.enumIndex # -1 /\ condition.variable2Index = -1
             THEN EvaluateConditionTyped_Enum(I, condition, A, B0, info.componentCount)
             ELSE EvaluateConditionTyped(condition, A, B0, info.componentCount, info.componentType2)

EvaluateCondition(I, condition) ==
    IF condition.alwaysFalse THEN FALSE
    ELSE IF condition.variable1Index = -1 \/ condition.comparison = "Count" THEN TRUE
    ELSE LET v1   == At(I.m_renderGraph.variables, condition.variable1Index)
             info == DataFieldTypeInfo(v1.type)
             A    == StorageBytes(I, condition.variable1Index)
             B0   == IF condition.variable2Index # -1
                     THEN StorageBytes(I, condition.variable2Index)
                     ELSE Zeros(info.componentCount)
         IN  IF info.componentType2 = "Int" /\ v1.enumIndex # -1 /\ condition.variable2Index = -1
             THEN EvaluateConditionTyped_Enum(I, condition, A, B0, info.componentCount)
             ELSE EvaluateConditionTyped(condition, A, B0, info.componentCount, info.componentType2)

(***************************************************************************)
(* SetVariable statements.                                                 *)
(***************************************************************************)
\* Element i (0-based) of an operand; a read past its end yields whatever the
\* memory there holds.
Component(X, i, garbage) == IF i < Len(X) THEN X[i + 1] ELSE garbage

\* sprintf_s("%u, %u, %u", m_size[0], m_size[1], m_size[2])
FormatSize(m_size) ==
    FormatU32(m_size[1]) \o <<",", " ">> \o FormatU32(m_size[2]) \o <<",", " ">> \o FormatU32(m_size[3])

\* The operand of DoSetVarOperation with a referenced variable taking
\* precedence over a bound texture or buffer.
ResolveOperand_VariableFirst(node, variableIndex, literal, bytes, componentCount, T, rd) ==
    IF variableIndex # -1
    THEN [val |-> bytes, rd |-> rd]
    ELSE IF node.textureNode # ""
    THEN LET rd1 == GetOrCreate(rd, "Resource_Texture", node.textureNode)
         IN  [val |-> SetFromString(FormatSize(rd1[<<"Resource_Texture", node.textureNode>>].m_size), 3, T),
              rd  |-> rd1]
    ELSE IF node.bufferNode # ""
    THEN LET rd1 == GetOrCreate(rd, "Resource_Buffer", node.bufferNode)
         IN  [val |-> SetFromString(FormatU32(rd1[<<"Resource_Buffer", node.bufferNode>>].m_count), 1, T),
              rd  |-> rd1]
    ELSE [val |-> SetFromString(literal, componentCount, T), rd |-> rd]

\* The operand read from a record as it is before any node action touched it.
ResolveOperand_DefaultRecord(node, variableIndex, literal, bytes, componentCount, T, rd) ==
    IF node.textureNode # ""
    THEN [val |-> SetFromString(FormatSize(DefaultRuntimeData.m_size), 3, T),
          rd  |-> GetOrCreate(rd, "Resource_Texture", node.textureNode)]
    ELSE IF node.bufferNode # ""
    THEN [val |-> SetFromString(FormatU32(DefaultRuntimeData.m_count), 1, T),
          rd  |-> GetOrCreate(rd, "Resource_Buffer", node.bufferNode)]
    ELSE IF variableIndex = -1
    THEN [val |-> SetFromString(literal, componentCount, T), rd |-> rd]
    ELSE [val |-> bytes, rd |-> rd]

\* One operand of DoSetVarOperation: texture size, else buffer count, else the
\* literal when no variable is referenced, else the variable's bytes.
\* Returns the operand and the registries (GetOrCreate may add an entry).
ResolveOperand(node, variableIndex, literal, bytes, componentCount, T, rd) ==
    IF node.textureNode # ""
    THEN LET rd1 == GetOrCreate(rd, "Resource_Texture", node.textureNode)
         IN  [val |-> SetFromString(FormatSize(rd1[<<"Resource_Texture", node.textureNode>>].m_size), 3, T),
              rd  |-> rd1]
    ELSE IF node.bufferNode # ""
    THEN LET rd1 == GetOrCreate(rd, "Resource_Buffer", node.bufferNode)
         IN  [val |-> SetFromString(FormatU32(rd1[<<"Resource_Buffer", node.bufferNode>>].m_count), 1, T),
              rd  |-> rd1]
    ELSE IF variableIndex = -1
    THEN [val |-> SetFromString(literal, componentCount, T), rd |-> rd]
    ELSE [val |-> bytes, rd |-> rd]

\* DoSetVarOperation<T> keeping componentCount when a component index is given.
DoSetVarOperation_AllComponents(setVar, ABytes, BBytes, destBytes, componentCount, T, rd, garbage) ==
    LET n    == componentCount
        dOff == IF setVar.destinationIndex # -1 THEN setVar.destinationIndex ELSE 0
        aOff == IF setVar.AVarIndex # -1 THEN setVar.AVarIndex ELSE 0
        bOff == IF setVar.BVarIndex # -1 THEN setVar.BVarIndex ELSE 0
    IN  Only({[dest |-> [j \in 1..Len(destBytes) |->
                            IF j - 1 - dOff \in 0..(n - 1)
                            THEN DoOp(Component(ra.val, aOff + (j - 1 - dOff), garbage),
                                      Component(rb.val, bOff + (j - 1 - dOff), garbage),
                                      destBytes[j], setVar.op, T, garbage)
                            ELSE destBytes[j]],
               rd   |-> rb.rd,
               A    |-> ra.val,
               B    |-> rb.val] :
            ra \in {ResolveOperand(setVar.ANode, setVar.AVar, setVar.ALiteral, ABytes, componentCount, T, rd)},
            rb \in {ResolveOperand(setVar.BNode, setVar.BVar, setVar.BLiteral, BBytes, componentCount, T,
                                   ResolveOperand(setVar.ANode, setVar.AVar, setVar.ALiteral, ABytes,
                                                  componentCount, T, rd).rd)}})

\* DoSetVarOperation<T>: the destination bytes after the operation, the
\* registries, and the operands as resolved.
DoSetVarOperation(setVar, ABytes, BBytes, destBytes, componentCount, T, rd, garbage) ==
    LET one  == setVar.destinationIndex # -1 \/ setVar.AVarIndex # -1 \/ setVar.BVarIndex # -1
        n    == IF one THEN 1 ELSE componentCount
        dOff == IF setVar.destinationIndex # -1 THEN setVar.destinationIndex ELSE 0
        aOff == IF setVar.AVarIndex # -1 THEN setVar.AVarIndex ELSE 0
        bOff == IF setVar.BVarIndex # -1 THEN setVar.BVarIndex ELSE 0
    IN  Only({[dest |-> [j \in 1..Len(destBytes) |->
                            IF j - 1 - dOff \in 0..(n - 1)
                            THEN DoOp(Component(ra.val, aOff + (j - 1 - dOff), garbage),
                                      Component(rb.val, bOff + (j - 1 - dOff), garbage),
                                      destBytes[j], setVar.op, T, garbage)
                            ELSE destBytes[j]],
               rd   |-> rb.rd,
               A    |-> ra.val,
               B    |-> rb.val] :
            ra \in {ResolveOperand(setVar.ANode, setVar.AVar, setVar.ALiteral, ABytes, componentCount, T, rd)},
            rb \in {ResolveOperand(setVar.BNode, setVar.BVar, setVar.BLiteral, BBytes, componentCount, T,
                                   ResolveOperand(setVar.ANode, setVar.AVar, setVar.ALiteral, ABytes,
                                                  componentCount, T, rd).rd)}})

\* IGigiInterpreter::ExecuteSetvar: the state after, and the operands read.
ExecuteSetvar(I, setVar, garbage) ==
    LET type  == At(I.m_renderGraph.variables, setVar.destination).type
        info  == DataFieldTypeInfo(type)
        key   == GetRuntimeVariable(I, setVar.destination).storage
        ABytes == IF setVar.AVar # -1 THEN StorageBytes(I, setVar.AVar) ELSE Zeros(info.componentCount)
        BBytes == IF setVar.BVar # -1 THEN StorageBytes(I, setVar.BVar) ELSE Zeros(info.componentCount)
        n     == info.componentCount
    IN  Only({[I |-> [I EXCEPT !.m_variableStorage[key] = [value |-> SubSeq(r.dest, 1, n),
                                                           dflt  |-> SubSeq(r.dest, n + 1, 2 * n)],
                               !.m_RuntimeData = r.rd],
               A |-> r.A,
               B |-> r.B] :
            r \in {DoSetVarOperation(setVar, ABytes, BBytes, StorageBytes(I, setVar.destination),
                                     info.componentCount, info.componentType2, I.m_RuntimeData, garbage)}})

\* What EvaluateCondition reads of variable1 and variable2, for the call log.
ConditionReads(I, condition) ==
    IF condition.alwaysFalse \/ condition.variable1Index = -1 \/ condition.comparison = "Count"
    THEN [c1 |-> <<>>, c2 |-> <<>>]
    ELSE [c1 |-> CurrentValue(I, condition.variable1Index),
          c2 |-> IF condition.variable2Index # -1 THEN CurrentValue(I, condition.variable2Index) ELSE <<>>]

\* The loop body of ExecuteSetVars without its test of the condition.
SetVarStep_Unconditional(I, k, beforeExecution, garbage) ==
    LET setVar == At(I.m_renderGraph.setVars, k)
    IN  IF setVar.destination = -1 \/ setVar.setBefore # beforeExecution
        THEN [I |-> I, log |-> <<>>]
        ELSE LET pass  == EvaluateCondition(I, setVar.condition)
                 reads == ConditionReads(I, setVar.condition)
                 ev    == [Event("SetVar", k, IF beforeExecution THEN 1 ELSE 0, pass)
                              EXCEPT !.c1 = reads.c1, !.c2 = reads.c2]
             IN  Only({[I   |-> x.I,
                        log |-> <<[ev EXCEPT !.A = x.A, !.B = x.B,
                                             !.D = CurrentValue(x.I, setVar.destination)]>>] :
                         x \in {ExecuteSetvar(I, setVar, garbage)}})

\* One statement of the loop of ExecuteSetVars: the state after it and its log entry, if any.
SetVarStep(I, k, beforeExecution, garbage) ==
    LET setVar == At(I.m_renderGraph.setVars, k)
    IN  IF setVar.destination = -1 \/ setVar.setBefore # beforeExecution
        THEN [I |-> I, log |-> <<>>]
        ELSE LET pass  == EvaluateCondition(I, setVar.condition)
                 reads == ConditionReads(I, setVar.condition)
                 ev    == [Event("SetVar", k, IF beforeExecution THEN 1 ELSE 0, pass)
                              EXCEPT !.c1 = reads.c1, !.c2 = reads.c2]
             IN  IF ~pass
                 THEN [I |-> I, log |-> <<ev>>]
                 ELSE Only({[I   |-> x.I,
                             log |-> <<[ev EXCEPT !.A = x.A, !.B = x.B,
                                                  !.D = CurrentValue(x.I, setVar.destination)]>>] :
                              x \in {ExecuteSetvar(I, setVar, garbage)}})

RECURSIVE ExecuteSetVarsFrom(_, _, _, _, _)
ExecuteSetVarsFrom(I, k, beforeExecution, garbage, log) ==
    IF k >= Len(I.m_renderGraph.setVars) THEN [I |-> I, log |-> log]
    ELSE Only({ExecuteSetVarsFrom(s.I, k + 1, beforeExecution, garbage, log \o s.log) :
                 s \in {SetVarStep(I, k, beforeExecution, garbage)}})

\* ExecuteSetVars with every statement of the phase evaluated against the
\* values the phase started with.
RECURSIVE ExecuteSetVarsFrom_Snapshot(_, _, _, _, _, _)
ExecuteSetVarsFrom_Snapshot(I0, I, k, beforeExecution, garbage, log) ==
    IF k >= Len(I.m_renderGraph.setVars) THEN [I |-> I, log |-> log]
    ELSE Only({ExecuteSetVarsFrom_Snapshot(
                 I0,
                 IF s.log = <<>> \/ ~s.log[1].r THEN I
                 ELSE Only({[I EXCEPT !.m_variableStorage[key] = s.I.m_variableStorage[key],
                                      !.m_RuntimeData = s.I.m_RuntimeData] :
                              key \in {GetRuntimeVariable(I, At(I.m_renderGraph.setVars, k).destination).storage}}),
                 k + 1, beforeExecution, garbage, log \o s.log) :
                 s \in {SetVarStep(I0, k, beforeExecution, garbage)}})

ExecuteSetVars_Snapshot(I, beforeExecution, garbage) ==
    ExecuteSetVarsFrom_Snapshot(I, I, 0, beforeExecution, garbage, <<>>)

\* IGigiInterpreter::ExecuteSetVars
ExecuteSetVars(I, beforeExecution, garbage) == ExecuteSetVarsFrom(I, 0, beforeExecution, garbage, <<>>)

(***************************************************************************)
(* Node actions.  OnNodeAction is supplied by the host: what it returns    *)
(* and what it does to the runtime data it is handed are inputs.           *)
(***************************************************************************)
Effects == {[set |-> FALSE, m_size |-> <<0, 0, 0>>, m_count |-> 0],
            [set |-> TRUE,  m_size |-> <<4, 2, 1>>, m_count |-> 3]}

\* The runtime data after the host's OnNodeAction(node, runtimeData, action).
OnNodeAction(node, runtimeData, eff) ==
    IF ~eff.set THEN runtimeData
    ELSE CASE node.kind = "Resource_Texture" -> [runtimeData EXCEPT !.m_size = eff.m_size]
           [] node.kind = "Resource_Buffer"  -> [runtimeData EXCEPT !.m_count = eff.m_count]
           [] OTHER                          -> runtimeData

\* The loop over flattenedNodeList of Compile (Init) and Execute (Execute),
\* from position pos on: stops at the first action that returns false.
\* The node loop without its early return.
RECURSIVE RunNodes_Continue(_, _, _, _, _, _)
RunNodes_Continue(I, action, results, eff, pos, log) ==
    IF pos >= Len(I.m_renderGraph.flattenedNodeList) THEN [I |-> I, log |-> log, ok |-> \A i \in DOMAIN log : log[i].r]
    ELSE LET nodeIndex == At(I.m_renderGraph.flattenedNodeList, pos)
             node      == At(I.m_renderGraph.nodes, nodeIndex)
             rd1       == GetOrCreate(I.m_RuntimeData, node.kind, node.name)
             rd2       == [rd1 EXCEPT ![<<node.kind, node.name>>] = OnNodeAction(node, @, eff)]
             log2      == Append(log, [Event(action, pos, nodeIndex, results[pos + 1])
                                          EXCEPT !.D = <<rd2[<<node.kind, node.name>>]>>])
         IN  Only({RunNodes_Continue(I2, action, results, eff, pos + 1, log2) :
                     I2 \in {[I EXCEPT !.m_RuntimeData = rd2]}})

\* The node loop walking flattenedNodeList from its last entry to its first.
RECURSIVE RunNodes_Reversed(_, _, _, _, _, _)
RunNodes_Reversed(I, action, results, eff, pos, log) ==
    IF pos >= Len(I.m_renderGraph.flattenedNodeList) THEN [I |-> I, log |-> log, ok |-> TRUE]
    ELSE LET nodeIndex == At(I.m_renderGraph.flattenedNodeList,
                             Len(I.m_renderGraph.flattenedNodeList) - 1 - pos)
             node      == At(I.m_renderGraph.nodes, nodeIndex)
             rd1       == GetOrCreate(I.m_RuntimeData, node.kind, node.name)
             rd2       == [rd1 EXCEPT ![<<node.kind, node.name>>] = OnNodeAction(node, @, eff)]
             log2      == Append(log, [Event(action, pos, nodeIndex, results[pos + 1])
                                          EXCEPT !.D = <<rd2[<<node.kind, node.name>>]>>])
         IN  Only({IF ~results[pos + 1]
                   THEN [I |-> I2, log |-> log2, ok |-> FALSE]
                   ELSE RunNodes_Reversed(I2, action, results, eff, pos + 1, log2) :
                     I2 \in {[I EXCEPT !.m_RuntimeData = rd2]}})

\* The node loop handing each Execute action a newly constructed record.
RECURSIVE RunNodes_FreshData(_, _, _, _, _, _)
RunNodes_FreshData(I, action, results, eff, pos, log) ==
    IF pos >= Len(I.m_renderGraph.flattenedNodeList) THEN [I |-> I, log |-> log, ok |-> TRUE]
    ELSE LET nodeIndex == At(I.m_renderGraph.flattenedNodeList, pos)
             node      == At(I.m_renderGraph.nodes, nodeIndex)
             rd0       == GetOrCreate(I.m_RuntimeData, node.kind, node.name)
             rd1       == IF action = "Execute"
                          THEN [rd0 EXCEPT ![<<node.kind, node.name>>] = DefaultRuntimeData]
                          ELSE rd0
             rd2       == [rd1 EXCEPT ![<<node.kind, node.name>>] = OnNodeAction(node, @, eff)]
             log2      == Append(log, [Event(action, pos, nodeIndex, results[pos + 1])
                                          EXCEPT !.D = <<rd2[<<node.kind, node.name>>]>>])
         IN  Only({IF ~results[pos + 1]
                   THEN [I |-> I2, log |-> log2, ok |-> FALSE]
                   ELSE RunNodes_FreshData(I2, action, results, eff, pos + 1, log2) :
                     I2 \in {[I EXCEPT !.m_RuntimeData = rd2]}})

RECURSIVE RunNodes(_, _, _, _, _, _)
RunNodes(I, action, results, eff, pos, log) ==
    IF pos >= Len(I.m_renderGraph.flattenedNodeList) THEN [I |-> I, log |-> log, ok |-> TRUE]
    ELSE LET nodeIndex == At(I.m_renderGraph.flattenedNodeList, pos)
             node      == At(I.m_renderGraph.nodes, nodeIndex)
             rd1       == GetOrCreate(I.m_RuntimeData, node.kind, node.name)
             rd2       == [rd1 EXCEPT ![<<node.kind, node.name>>] = OnNodeAction(node, @, eff)]
             log2      == Append(log, [Event(action, pos, nodeIndex, results[pos + 1])
                                          EXCEPT !.D = <<rd2[<<node.kind, node.name>>]>>])
         IN  Only({IF ~results[pos + 1]
                   THEN [I |-> I2, log |-> log2, ok |-> FALSE]
                   ELSE RunNodes(I2, action, results, eff, pos + 1, log2) :
                     I2 \in {[I EXCEPT !.m_RuntimeData = rd2]}})

(***************************************************************************)
(* The host-facing methods.  Each yields the state after, the value        *)
(* returned, and the log of what the call did.                             *)
(***************************************************************************)
\* Compile reporting OK whatever the Init actions return.
Compile_IgnoresInitResult(I, graph, compilerResult, leftGraph, results, eff) ==
    LET head == <<Event("OnPreCompile", 0, 0, TRUE),
                  [Event("GigiCompile", 0, 0, compilerResult = "OK") EXCEPT !.c1 = <<compilerResult>>]>>
    IN  IF compilerResult # "OK"
        THEN [I     |-> [I EXCEPT !.m_renderGraph = leftGraph, !.m_compileResult = compilerResult],
              ret   |-> compilerResult,
              trace |-> head]
        ELSE LET I1 == [I EXCEPT !.m_renderGraph = graph, !.m_compileResult = "OK"]
                 I2 == CreateVariableStorage(I1, graph)
                 I3 == [I2 EXCEPT !.m_RuntimeData = <<>>]
             IN  Only({[I     |-> nodes.I,
                        ret   |-> "OK",
                        trace |-> head \o <<Event("CreateVariableStorage", 0, 0, TRUE),
                                            Event("OnCompileOK", 0, 0, TRUE)>> \o nodes.log] :
                         nodes \in {RunNodes(I3, "Init", results, eff, 0, <<>>)}})

\* Compile calling the OnCompileOK hook before it creates the variable storage.
Compile_HookBeforeStorage(I, graph, compilerResult, leftGraph, results, eff) ==
    LET head == <<Event("OnPreCompile", 0, 0, TRUE),
                  [Event("GigiCompile", 0, 0, compilerResult = "OK") EXCEPT !.c1 = <<compilerResult>>]>>
    IN  IF compilerResult # "OK"
        THEN [I     |-> [I EXCEPT !.m_renderGraph = leftGraph, !.m_compileResult = compilerResult],
              ret   |-> compilerResult,
              trace |-> head]
        ELSE LET I1 == [I EXCEPT !.m_renderGraph = graph, !.m_compileResult = "OK"]
                 I2 == CreateVariableStorage(I1, graph)
                 I3 == [I2 EXCEPT !.m_RuntimeData = <<>>]
             IN  Only({[I     |-> nodes.I,
                        ret   |-> IF nodes.ok THEN "OK" ELSE "InterpreterError",
                        trace |-> head \o <<Event("OnCompileOK", 0, 0, TRUE),
                                            Event("CreateVariableStorage", 0, 0, TRUE)>> \o nodes.log] :
                         nodes \in {RunNodes(I3, "Init", results, eff, 0, <<>>)}})

\* Compile creating the variable storage before it looks at the compiler's result.
Compile_StorageBeforeCheck(I, graph, compilerResult, leftGraph, results, eff) ==
    LET head == <<Event("OnPreCompile", 0, 0, TRUE),
                  [Event("GigiCompile", 0, 0, compilerResult = "OK") EXCEPT !.c1 = <<compilerResult>>],
                  Event("CreateVariableStorage", 0, 0, TRUE)>>
        I1   == [I EXCEPT !.m_renderGraph = IF compilerResult = "OK" THEN graph ELSE leftGraph,
                          !.m_compileResult = compilerResult]
    IN  Only({IF compilerResult # "OK"
              THEN [I |-> I2, ret |-> compilerResult, trace |-> head]
              ELSE Only({[I     |-> nodes.I,
                          ret   |-> IF nodes.ok THEN "OK" ELSE "InterpreterError",
                          trace |-> head \o <<Event("OnCompileOK", 0, 0, TRUE)>> \o nodes.log] :
                           nodes \in {RunNodes([I2 EXCEPT !.m_RuntimeData = <<>>], "Init", results, eff, 0, <<>>)}}) :
                I2 \in {CreateVariableStorage(I1, I1.m_renderGraph)}})

\* IGigiInterpreter::Compile.  graph and compilerResult are what GigiCompile
\* produces for the file; leftGraph is what it leaves in m_renderGraph when it fails.
\* Compile running the Init actions on the registries as the previous graph left them.
Compile_KeepsRegistries(I, graph, compilerResult, leftGraph, results, eff) ==
    LET head == <<Event("OnPreCompile", 0, 0, TRUE),
                  [Event("GigiCompile", 0, 0, compilerResult = "OK") EXCEPT !.c1 = <<compilerResult>>]>>
    IN  IF compilerResult # "OK"
        THEN [I     |-> [I EXCEPT !.m_renderGraph = leftGraph, !.m_compileResult = compilerResult],
              ret   |-> compilerResult,
              trace |-> head]
        ELSE LET I1 == [I EXCEPT !.m_renderGraph = graph, !.m_compileResult = "OK"]
                 I2 == CreateVariableStorage(I1, graph)
             IN  Only({[I     |-> nodes.I,
                        ret   |-> IF nodes.ok THEN "OK" ELSE "InterpreterError",
                        trace |-> head \o <<Event("CreateVariableStorage", 0, 0, TRUE),
                                            Event("OnCompileOK", 0, 0, TRUE)>> \o nodes.log] :
                         nodes \in {RunNodes(I2, "Init", results, eff, 0, <<>>)}})

Compile(I, graph, compilerResult, leftGraph, results, eff) ==
    LET head == <<Event("OnPreCompile", 0, 0, TRUE),
                  [Event("GigiCompile", 0, 0, compilerResult = "OK") EXCEPT !.c1 = <<compilerResult>>]>>
    IN  IF compilerResult # "OK"
        THEN [I     |-> [I EXCEPT !.m_renderGraph = leftGraph, !.m_compileResult = compilerResult],
              ret   |-> compilerResult,
              trace |-> head]
        ELSE LET I1 == [I EXCEPT !.m_renderGraph = graph, !.m_compileResult = "OK"]
                 I2 == CreateVariableStorage(I1, graph)
                 I3 == [I2 EXCEPT !.m_RuntimeData = <<>>]
             IN  Only({[I     |-> nodes.I,
                        ret   |-> IF nodes.ok THEN "OK" ELSE "InterpreterError",
                        trace |-> head \o <<Event("CreateVariableStorage", 0, 0, TRUE),
                                            Event("OnCompileOK", 0, 0, TRUE)>> \o nodes.log] :
                         nodes \in {RunNodes(I3, "Init", results, eff, 0, <<>>)}})

\* Execute reporting failure when there is nothing compiled.
Execute_FalseWhenNotCompiled(I, results, eff, garbage) ==
    IF I.m_compileResult # "OK"
    THEN [I |-> I, ret |-> FALSE, trace |-> <<>>]
    ELSE Only({Only({IF ~nodes.ok
                     THEN [I |-> nodes.I, ret |-> FALSE, trace |-> pre.log \o nodes.log]
                     ELSE Only({[I |-> post.I, ret |-> TRUE, trace |-> pre.log \o nodes.log \o post.log] :
                                  post \in {ExecuteSetVars(nodes.I, FALSE, garbage)}}) :
                       nodes \in {RunNodes(pre.I, "Execute", results, eff, 0, <<>>)}}) :
                 pre \in {ExecuteSetVars(I, TRUE, garbage)}})

\* Execute running the post-phase statements before the nodes.
Execute_PostPhaseBeforeNodes(I, results, eff, garbage) ==
    IF I.m_compileResult # "OK"
    THEN [I |-> I, ret |-> TRUE, trace |-> <<>>]
    ELSE Only({Only({Only({[I     |-> nodes.I,
                            ret   |-> nodes.ok,
                            trace |-> pre.log \o post.log \o nodes.log] :
                             nodes \in {RunNodes(post.I, "Execute", results, eff, 0, <<>>)}}) :
                       post \in {ExecuteSetVars(pre.I, FALSE, garbage)}}) :
                 pre \in {ExecuteSetVars(I, TRUE, garbage)}})

\* Execute putting back the state it started from when a node fails.
Execute_RollsBack(I, results, eff, garbage) ==
    IF I.m_compileResult # "OK"
    THEN [I |-> I, ret |-> TRUE, trace |-> <<>>]
    ELSE Only({Only({IF ~nodes.ok
                     THEN [I |-> I, ret |-> FALSE, trace |-> pre.log \o nodes.log]
                     ELSE Only({[I |-> post.I, ret |-> TRUE, trace |-> pre.log \o nodes.log \o post.log] :
                                  post \in {ExecuteSetVars(nodes.I, FALSE, garbage)}}) :
                       nodes \in {RunNodes(pre.I, "Execute", results, eff, 0, <<>>)}}) :
                 pre \in {ExecuteSetVars(I, TRUE, garbage)}})

\* IGigiInterpreter::Execute
Execute(I, results, eff, garbage) ==
    IF I.m_compileResult # "OK"
    THEN [I |-> I, ret |-> TRUE, trace |-> <<>>]
    ELSE Only({Only({IF ~nodes.ok
                     THEN [I |-> nodes.I, ret |-> FALSE, trace |-> pre.log \o nodes.log]
                     ELSE Only({[I |-> post.I, ret |-> TRUE, trace |-> pre.log \o nodes.log \o post.log] :
                                  post \in {ExecuteSetVars(nodes.I, FALSE, garbage)}}) :
                       nodes \in {RunNodes(pre.I, "Execute", results, eff, 0, <<>>)}}) :
                 pre \in {ExecuteSetVars(I, TRUE, garbage)}})

\* IGigiInterpreter::Clear
\* Clear leaving the variable storage as it is.
Clear_KeepsStorage(I) ==
    [I EXCEPT !.m_compileResult = "NotCompiledYet", !.m_runtimeVariables = <<>>]

Clear(I) ==
    [I EXCEPT !.m_compileResult = "NotCompiledYet", !.m_variableStorage = <<>>, !.m_runtimeVariables = <<>>]

\* VariableStorage::SetValueFromString
\* SetValueFromString parsing the first component only.
SetValueFromString_FirstOnly(vs, variable, textValue) ==
    LET info == DataFieldTypeInfo(variable.type)
        vs1  == VariableStorageGet(vs, variable)
    IN  [vs1 EXCEPT ![<<variable.name, variable.type>>].value =
                        [i \in 1..info.componentCount |->
                            IF i = 1 THEN SetFromString(textValue, 1, info.componentType2)[1] ELSE 0]]

SetValueFromString(vs, variable, textValue) ==
    LET info == DataFieldTypeInfo(variable.type)
        vs1  == VariableStorageGet(vs, variable)
    IN  [vs1 EXCEPT ![<<variable.name, variable.type>>].value =
                        SetFromString(textValue, info.componentCount, info.componentType2)]

\* VariableStorage::GetValueAsString: the text, and the storage after the Get it makes.
GetValueAsString(vs, variable) ==
    LET info == DataFieldTypeInfo(variable.type)
        vs1  == VariableStorageGet(vs, variable)
    IN  [vs   |-> vs1,
         text |-> GetAsString(info.componentCount, vs1[<<variable.name, variable.type>>].value,
                              info.componentType2)]

\* IGigiInterpreter::SetRuntimeVariableFromString
SetRuntimeVariableFromString(I, index, textValue) ==
    LET variable == GetRuntimeVariable(I, index).variable
        valueInt == IF variable.enumIndex # -1
                    THEN EnumLabelToValue(At(I.m_renderGraph.enums, variable.enumIndex), textValue)
                    ELSE -1
    IN  [I EXCEPT !.m_variableStorage =
            IF valueInt >= 0
            THEN \* sprintf_s("%i") of a value that is >= 0
                 SetValueFromString(I.m_variableStorage, variable, FormatU32(valueInt))
            ELSE SetValueFromString(I.m_variableStorage, variable, textValue)]

\* SetRuntimeVariableToDflt with the arguments of its memcpy exchanged.
SetRuntimeVariableToDflt_CopiesValue(I, index) ==
    LET key == GetRuntimeVariable(I, index).storage
    IN  [I EXCEPT !.m_variableStorage[key].dflt = I.m_variableStorage[key].value]

\* IGigiInterpreter::SetRuntimeVariableToDflt
SetRuntimeVariableToDflt(I, index) ==
    LET key == GetRuntimeVariable(I, index).storage
    IN  [I EXCEPT !.m_variableStorage[key].value = I.m_variableStorage[key].dflt]

(***************************************************************************)
(* The graphs the external compiler can hand over (its inputs are files;   *)
(* these are the RenderGraph values it builds from them).                  *)
(***************************************************************************)
NoCondition == [variable1Index |-> -1, variable2Index |-> -1, value2 |-> <<>>,
                comparison |-> "Count", alwaysFalse |-> FALSE]

NoNode == [textureNode |-> "", bufferNode |-> ""]

\* A default-constructed SetVariable.
BaseSetVar == [destination |-> -1, destinationIndex |-> -1,
               AVar |-> -1, AVarIndex |-> -1, ANode |-> NoNode, ALiteral |-> <<>>,
               BVar |-> -1, BVarIndex |-> -1, BNode |-> NoNode, BLiteral |-> <<>>,
               op |-> "Noop", setBefore |-> TRUE, condition |-> NoCondition]

ModeEnum == [originalName |-> <<"M", "o", "d", "e">>,
             items |-> <<[label |-> <<"F", "a", "s", "t">>], [label |-> <<"S", "l", "o", "w">>]>>]

GraphNodes == <<[kind |-> "Action_ComputeShader", name |-> "Blur"],
                [kind |-> "Resource_Texture", name |-> "T"],
                [kind |-> "Resource_Buffer", name |-> "B"]>>

\* One uint variable radius with default dflt, and radius = radius * 2 before execution.
RadiusGraph(dflt) ==
    [variables |-> <<[name |-> "radius", type |-> "Uint", dflt |-> dflt, enumIndex |-> -1]>>,
     enums |-> <<>>,
     nodes |-> GraphNodes,
     flattenedNodeList |-> <<1, 0>>,
     setVars |-> <<[BaseSetVar EXCEPT !.destination = 0, !.AVar = 0, !.BLiteral = <<"2">>,
                                      !.op = "Multiply"]>>]

\* Statements that read what earlier statements wrote, in both phases.
ChainGraph ==
    [variables |-> <<[name |-> "x", type |-> "Uint", dflt |-> <<"1">>, enumIndex |-> -1],
                     [name |-> "y", type |-> "Uint", dflt |-> <<"0">>, enumIndex |-> -1],
                     [name |-> "flag", type |-> "Bool", dflt |-> <<"f", "a", "l", "s", "e">>, enumIndex |-> -1],
                     [name |-> "mode", type |-> "Int", dflt |-> <<"0">>, enumIndex |-> 0],
                     [name |-> "size", type |-> "Uint3", dflt |-> <<"0", ",", " ", "0", ",", " ", "0">>, enumIndex |-> -1]>>,
     enums |-> <<ModeEnum>>,
     nodes |-> GraphNodes,
     flattenedNodeList |-> <<1, 2, 0>>,
     setVars |-> <<
        \* 0: x = x + 1
        [BaseSetVar EXCEPT !.destination = 0, !.AVar = 0, !.BLiteral = <<"1">>, !.op = "Add"],
        \* 1: y = x * 10
        [BaseSetVar EXCEPT !.destination = 1, !.AVar = 0, !.BLiteral = <<"1", "0">>, !.op = "Multiply"],
        \* 2: if (x >= 3) flag = true
        [BaseSetVar EXCEPT !.destination = 2, !.ALiteral = <<"t", "r", "u", "e">>,
                           !.condition = [NoCondition EXCEPT !.variable1Index = 0, !.value2 = <<"3">>,
                                                             !.comparison = "GTE"]],
        \* 3: no destination
        [BaseSetVar EXCEPT !.ALiteral = <<"7">>],
        \* 4: never
        [BaseSetVar EXCEPT !.destination = 1, !.ALiteral = <<"9", "9">>,
                           !.condition = [NoCondition EXCEPT !.alwaysFalse = TRUE]],
        \* 5: size = size of texture T, after execution
        [BaseSetVar EXCEPT !.destination = 4, !.ANode = [NoNode EXCEPT !.textureNode = "T"],
                           !.setBefore = FALSE],
        \* 6: if (flag) y = y - x, after execution
        [BaseSetVar EXCEPT !.destination = 1, !.AVar = 1, !.BVar = 0, !.op = "Subtract", !.setBefore = FALSE,
                           !.condition = [NoCondition EXCEPT !.variable1Index = 2, !.comparison = "IsTrue"]],
        \* 7: if (mode == Mode::Slow) x = count of buffer B, after execution
        [BaseSetVar EXCEPT !.destination = 0, !.ANode = [NoNode EXCEPT !.bufferNode = "B"], !.setBefore = FALSE,
                           !.condition = [NoCondition EXCEPT !.variable1Index = 3,
                                                             !.value2 = <<"M", "o", "d", "e", ":", ":", "S", "l", "o", "w">>,
                                                             !.comparison = "Equals"]],
        \* 8: if (y > x) x = size.y / 2, after execution
        [BaseSetVar EXCEPT !.destination = 0, !.AVar = 4, !.AVarIndex = 1, !.BLiteral = <<"2">>,
                           !.op = "Divide", !.setBefore = FALSE,
                           !.condition = [NoCondition EXCEPT !.variable1Index = 1, !.variable2Index = 0,
                                                             !.comparison = "GT"]]
     >>]

RadiusGraphs == {RadiusGraph(<<"1">>), RadiusGraph(<<"1", "0", "7", "3", "7", "4", "1", "8", "2", "5">>)}

\* What the node actions at positions 1..n return.  The loops stop at the first
\* false, so the results that matter are: all true, or a first false at k.
NodeResults(n) == {[i \in 1..n |-> i # k] : k \in 0..n}

\* What GigiCompile can return.
CompilerResults == {"OK", "CompilerFailure"}

\* Texts the host passes to SetRuntimeVariableFromString.
HostTexts == {<<"5">>, <<"m", "o", "d", "e", ":", ":", "s", "l", "o", "w">>}

\* Variables of every integer component type and of 1 to 4 components.
TypesGraph ==
    [variables |-> <<[name |-> "i", type |-> "Int4",
                      dflt |-> <<"-", "1", ",", " ", "2", ",", "-", "2", "1", "4", "7", "4", "8", "3", "6", "4", "8", ",", "0">>,
                      enumIndex |-> -1],
                     [name |-> "u", type |-> "Uint3",
                      dflt |-> <<"4", "2", "9", "4", "9", "6", "7", "2", "9", "5", ",", "0", ",", "7">>,
                      enumIndex |-> -1],
                     [name |-> "h", type |-> "Uint_16", dflt |-> <<"6", "5", "5", "3", "5">>, enumIndex |-> -1],
                     [name |-> "b", type |-> "Bool", dflt |-> <<"t", "r", "u", "e">>, enumIndex |-> -1],
                     [name |-> "p", type |-> "Uint2", dflt |-> <<"1", ",", "2">>, enumIndex |-> -1]>>,
     enums |-> <<>>,
     nodes |-> GraphNodes,
     flattenedNodeList |-> <<>>,
     setVars |-> <<>>]

\* Two variables of each of two vector types, and a bool.
VectorGraph ==
    [variables |-> <<[name |-> "a", type |-> "Int3", dflt |-> <<"1", ",", " ", "2", ",", " ", "3">>, enumIndex |-> -1],
                     [name |-> "b", type |-> "Int3", dflt |-> <<"1", ",", " ", "2", ",", " ", "3">>, enumIndex |-> -1],
                     [name |-> "u", type |-> "Uint2", dflt |-> <<"4", "2", "9", "4", "9", "6", "7", "2", "9", "5", ",", " ", "1">>, enumIndex |-> -1],
                     [name |-> "w", type |-> "Uint2", dflt |-> <<"1", ",", " ", "4", "2", "9", "4", "9", "6", "7", "2", "9", "5">>, enumIndex |-> -1],
                     [name |-> "f", type |-> "Bool", dflt |-> <<"t", "r", "u", "e">>, enumIndex |-> -1]>>,
     enums |-> <<>>,
     nodes |-> GraphNodes,
     flattenedNodeList |-> <<>>,
     setVars |-> <<>>]

\* A graph of three uint3 variables and one statement.
StatementGraph(setVar) ==
    [variables |-> <<[name |-> "d", type |-> "Uint3", dflt |-> <<"1", "0", ",", " ", "2", "0", ",", " ", "3", "0">>, enumIndex |-> -1],
                     [name |-> "a", type |-> "Uint3", dflt |-> <<"1", ",", " ", "2", ",", " ", "3">>, enumIndex |-> -1],
                     [name |-> "b", type |-> "Uint3", dflt |-> <<"4", ",", " ", "5", ",", " ", "6">>, enumIndex |-> -1]>>,
     enums |-> <<>>,
     nodes |-> GraphNodes,
     flattenedNodeList |-> <<1, 2, 0>>,
     setVars |-> <<setVar>>]

\* The ways an operand can name its source: a texture, a buffer, a variable,
\* any of them together, or none (the literal).
OperandSources ==
    {[node |-> [textureNode |-> t, bufferNode |-> b], var |-> v] :
        t \in {"", "T"}, b \in {"", "B"}, v \in {-1, 1}}

\* d = A + B with every source of A before execution, and with every source
\* of B after execution.
OperandStatements ==
    {[BaseSetVar EXCEPT !.destination = 0, !.op = "Add",
                        !.ANode = src.node, !.AVar = src.var, !.ALiteral = <<"7", ",", " ", "8", ",", " ", "9">>,
                        !.BLiteral = <<"1", "0", "0", ",", " ", "1", "0", "0", ",", " ", "1", "0", "0">>] : src \in OperandSources}
    \cup
    {[BaseSetVar EXCEPT !.destination = 0, !.op = "Add", !.setBefore = FALSE,
                        !.BNode = src.node, !.BVar = IF src.var = -1 THEN -1 ELSE 2, !.BLiteral = <<"7", ",", " ", "8", ",", " ", "9">>,
                        !.ALiteral = <<"1", "0", "0", ",", " ", "1", "0", "0", ",", " ", "1", "0", "0">>] : src \in OperandSources}

\* d = A + B with every combination of component indices that name a
\* component the destination and the operands have; A is d itself or a, B is
\* b or a literal.
IndexStatements ==
    {[BaseSetVar EXCEPT !.destination = 0, !.op = "Add",
                        !.destinationIndex = di, !.AVar = av, !.AVarIndex = ai,
                        !.BVar = bv, !.BVarIndex = bi, !.BLiteral = <<"4", "0", ",", " ", "5", "0", ",", " ", "6", "0">>] :
        di \in {-1, 0, 2}, ai \in {-1, 1, 2}, bi \in {-1, 0, 1}, av \in {0, 1}, bv \in {-1, 2}}

\* What the host types into a and b of VectorGraph.
VectorTexts == {<<"1", ",", " ", "2", ",", " ", "3">>, <<"1", ",", " ", "5", ",", " ", "3">>, <<"0", ",", " ", "0", ",", " ", "0">>, <<"-", "4", ",", " ", "5", ",", " ", "6">>}

\* What the host types into a variable of TypesGraph.
StorageTexts == {<<"-", "7", ",", " ", "3">>, <<"F", "a", "l", "s", "e">>, <<"7", "0", "0", "0", "0", ",", "1", ",", "2", ",", "3">>}

\* The texts the host enters for the variables of a graph.
\* The texts the host types for the variables of ChainGraph: labels of Mode in
\* several spellings, with and without the prefix, texts that are no label,
\* and plain values.
EnumTexts == {<<"F", "a", "s", "t">>, <<"s", "L", "O", "W">>,
              <<"M", "O", "D", "E", ":", ":", "s", "l", "o", "w">>,
              <<"M", "o", "d", "e", ":", ":">>, <<"S", "l", "o">>, <<"S", "l", "o", "w", "e", "r">>,
              <<"7">>, <<"-", "1">>, <<"t", "r", "u", "e">>, <<"3", ",", " ", "4", ",", " ", "5">>}

TextsFor(graph) ==
    IF graph = TypesGraph THEN StorageTexts
    ELSE IF graph = ChainGraph THEN EnumTexts
    ELSE HostTexts

\* The nodes whose output a node reads: the compute shader Blur reads the
\* texture T and the buffer B, and the copy node reads T.
Producers(graph, nodeIndex) ==
    {p \in (CASE nodeIndex = 0 -> {1, 2} [] nodeIndex = 3 -> {1} [] OTHER -> {}) :
        InRange(graph.nodes, p)}

\* flattenedNodeList holds every node once, each after the nodes it reads.
ValidOrder(graph) ==
    LET flat == graph.flattenedNodeList
    IN  /\ Len(flat) = Len(graph.nodes)
        /\ \A n \in 0..(Len(graph.nodes) - 1) : \E i \in DOMAIN flat : flat[i] = n
        /\ \A i \in DOMAIN flat : \A p \in Producers(graph, flat[i]) :
              \E j \in DOMAIN flat : j < i /\ flat[j] = p

\* Four nodes and no variables, flattened as flat.
OrderGraph(flat) ==
    [variables |-> <<>>, enums |-> <<>>,
     nodes |-> GraphNodes \o <<[kind |-> "Action_CopyResource", name |-> "Copy"]>>,
     flattenedNodeList |-> flat,
     setVars |-> <<>>]

\* The graphs of those four nodes in every order the graph compiler may emit.
OrderGraphs == {g \in {OrderGraph(flat) : flat \in [1..4 -> 0..3]} : ValidOrder(g)}

\* What a read past the end of an operand can yield.
\* A graph whose statements copy the size of texture T and the count of
\* buffer B into variables, before the nodes run and after; the nodes run in
\* the given order.
ResourceGraph(order) ==
    [variables |-> <<[name |-> "pre_size", type |-> "Uint3", dflt |-> <<"9", ",", " ", "9", ",", " ", "9">>, enumIndex |-> -1],
                     [name |-> "pre_count", type |-> "Uint", dflt |-> <<"9">>, enumIndex |-> -1],
                     [name |-> "post_size", type |-> "Uint3", dflt |-> <<"9", ",", " ", "9", ",", " ", "9">>, enumIndex |-> -1],
                     [name |-> "post_count", type |-> "Uint", dflt |-> <<"9">>, enumIndex |-> -1]>>,
     enums |-> <<>>,
     nodes |-> GraphNodes,
     flattenedNodeList |-> order,
     setVars |-> <<
        [BaseSetVar EXCEPT !.destination = 0, !.ANode = [NoNode EXCEPT !.textureNode = "T"]],
        [BaseSetVar EXCEPT !.destination = 1, !.ANode = [NoNode EXCEPT !.bufferNode = "B"]],
        [BaseSetVar EXCEPT !.destination = 2, !.ANode = [NoNode EXCEPT !.textureNode = "T"], !.setBefore = FALSE],
        [BaseSetVar EXCEPT !.destination = 3, !.ANode = [NoNode EXCEPT !.bufferNode = "B"], !.setBefore = FALSE],
        \* post_count = 1 + count of B, after execution
        [BaseSetVar EXCEPT !.destination = 3, !.ALiteral = <<"1">>, !.BNode = [NoNode EXCEPT !.bufferNode = "B"],
                           !.op = "Add", !.setBefore = FALSE]
     >>]

\* d[destinationIndex] = A + "40, 50, 60" for component indices of a
\* four-component vector (x, y, z, w), the destination d having three; A is
\* a or a literal.
DestinationStatements ==
    {[BaseSetVar EXCEPT !.destination = 0, !.op = "Add", !.destinationIndex = di,
                        !.AVar = av, !.ALiteral = <<"1", ",", " ", "2", ",", " ", "3">>,
                        !.BLiteral = <<"4", "0", ",", " ", "5", "0", ",", " ", "6", "0">>,
                        !.setBefore = before] :
        di \in {-1, 0, 1, 2, 3}, av \in {-1, 1}, before \in BOOLEAN}

Garbage == {0, 77}

(***************************************************************************)
(* The scratch directory of Compile.                                       *)
(***************************************************************************)
\* _getpid() of the process the interpreter lives in, and of another process.
ProcessId == 4242

OtherProcessId == 977

\* An interpreter object: the process it lives in and which object of that
\* process it is.
ThisInstance == [process |-> ProcessId, id |-> 0]

Instances == {[process |-> p, id |-> i] : p \in {ProcessId, OtherProcessId}, i \in 0..1}

\* std::filesystem::temp_directory_path().string()
TempDirectoryPath == <<"T", ":", "\\", "T", "e", "m", "p", "\\">>

\* The scratch directory with the object's id in its name.
TempDirectory_PerInstance(instance) ==
    TempDirectoryPath \o <<"G", "i", "g", "i", "\\">> \o FormatSigned(instance.process)
        \o <<"_">> \o FormatSigned(instance.id) \o <<"\\">>

\* m_tempDirectory as Compile builds it: temp path, "Gigi\", the process id
\* printed with %i, "\".
TempDirectory(instance) ==
    TempDirectoryPath \o <<"G", "i", "g", "i", "\\">> \o FormatSigned(instance.process) \o <<"\\">>

\* std::filesystem::remove_all(dir)
RemoveAll(d, dir) == [x \in DOMAIN d \ {dir} |-> d[x]]

\* std::filesystem::create_directories(dir)
CreateDirectories(d, dir) ==
    IF dir \in DOMAIN d THEN d ELSE [x \in DOMAIN d \cup {dir} |-> IF x = dir THEN {} ELSE d[x]]

\* GigiCompile(..., outputDirectory, ...) adding its output files to the directory.
GigiCompileWrites(d, dir, artifacts) == [d EXCEPT ![dir] = @ \cup artifacts]

\* The files a compile made by an instance leaves: nothing when the compiler
\* fails before it has built anything.
Artifacts(instance, wrote) == IF wrote THEN {[by |-> instance]} ELSE {}

\* What a Compile made by an instance does to the disk: remove_all, then
\* create_directories, then the graph compiler writing into the directory.
CompileScratch(d, instance, artifacts) ==
    Only({GigiCompileWrites(CreateDirectories(RemoveAll(d, dir), dir), dir, artifacts) :
            dir \in {TempDirectory(instance)}})

(***************************************************************************)
(* The generated boxblur technique (DX12): its contexts, the objects all   *)
(* contexts share, and the barriers Execute records.                       *)
(***************************************************************************)
\* What CreateShared creates, in the order it creates them; each of these
\* creations can fail and make CreateShared return false.  The descriptor
\* counts c_numSRVDescriptors, c_numRTVDescriptors and c_numDSVDescriptors are
\* taken to be positive, so that each heap is created.
SharedSteps ==
    <<"computeShader_BlurH_rootSig", "computeShader_BlurH_pso",
      "computeShader_BlurV_rootSig", "computeShader_BlurV_pso",
      "s_srvHeap", "s_rtvHeap", "s_dsvHeap">>

AllShared == {SharedSteps[i] : i \in 1..Len(SharedSteps)} \cup {"s_commandSignatureDispatch"}

\* CreateShared(device): failAt = 0 when every creation succeeds, else the
\* step that fails; the result of CreateCommandSignature is not looked at.
boxblur_CreateShared(sh, failAt, signatureMade) ==
    IF failAt # 0
    THEN [shared |-> sh \cup {SharedSteps[i] : i \in 1..(failAt - 1)}, ret |-> FALSE]
    ELSE [shared |-> sh \cup {SharedSteps[i] : i \in 1..Len(SharedSteps)}
                        \cup (IF signatureMade THEN {"s_commandSignatureDispatch"} ELSE {}),
          ret    |-> TRUE]

\* DestroyShared(): every pointer released and set to null, every heap destroyed.
boxblur_DestroyShared(sh) == {}

\* D3D12_RESOURCE_STATES
NPSR == "NON_PIXEL_SHADER_RESOURCE"

UAV == "UNORDERED_ACCESS"

\* A default-constructed Context: no input texture given, no internal texture made.
NewContext(id) ==
    [id |-> id,
     texture_InputTexture |-> FALSE, texture_InputTexture_state |-> "COMMON",
     texture_InputTexture_size |-> 0, variable_enabled |-> TRUE,
     texture_PingPongTexture |-> FALSE, texture_PingPongTexture_size |-> 0]

IdsOf(contexts) == {contexts[i].id : i \in 1..Len(contexts)}

\* new Context: an address no live context has.
FreshId(contexts) == CHOOSE i \in 1..(Len(contexts) + 1) : i \notin IdsOf(contexts)

\* CreateContext(device): the context list and shared objects after, and the
\* id of the context returned (0 for null).
boxblur_CreateContext(contexts, sh, failAt, signatureMade) ==
    LET made == IF Len(contexts) = 0 THEN boxblur_CreateShared(sh, failAt, signatureMade)
                ELSE [shared |-> sh, ret |-> TRUE]
    IN  IF ~made.ret
        THEN [s_allContexts |-> contexts, shared |-> made.shared, ret |-> 0]
        ELSE [s_allContexts |-> Append(contexts, NewContext(FreshId(contexts))),
              shared |-> made.shared, ret |-> FreshId(contexts)]

\* DestroyContext(context): erase-remove the pointer, delete the context, and
\* destroy the shared objects when the list is empty afterwards.
boxblur_DestroyContext(contexts, sh, id) ==
    LET left == SelectSeq(contexts, LAMBDA c : c.id # id)
    IN  [s_allContexts |-> left,
         shared        |-> IF Len(left) = 0 THEN boxblur_DestroyShared(sh) ELSE sh]

\* The textures of a context, as keys of the GPU state.
InputTexture(ctx) == <<ctx.id, "InputTexture">>

PingPongTexture(ctx) == <<ctx.id, "PingPongTexture">>

\* A resource (newly) in a state.
InState(g, key, state) == [k \in DOMAIN g \cup {key} |-> IF k = key THEN state ELSE g[k]]

\* Context::EnsureResourcesCreated: the ping-pong texture is created, in
\* NON_PIXEL_SHADER_RESOURCE, when there is none or the input's size changed.
EnsureResourcesCreated(ctx, g) ==
    IF ~ctx.texture_PingPongTexture \/ ctx.texture_PingPongTexture_size # ctx.texture_InputTexture_size
    THEN [ctx |-> [ctx EXCEPT !.texture_PingPongTexture = TRUE,
                              !.texture_PingPongTexture_size = ctx.texture_InputTexture_size],
          gpu |-> InState(g, PingPongTexture(ctx), NPSR)]
    ELSE [ctx |-> ctx, gpu |-> g]

\* commandList->ResourceBarrier with one transition: the log keeps the
\* barrier and the state the resource was in when it was recorded.
Transition(s, key, before, after) ==
    [gpu |-> [s.gpu EXCEPT ![key] = after],
     log |-> Append(s.log, [e |-> "Transition", resource |-> key, StateBefore |-> before,
                            StateAfter |-> after, was |-> s.gpu[key]])]

\* commandList->Dispatch of a blur pass, when the technique is enabled: the
\* log keeps the states of the texture read and the texture written.
Dispatch(s, enabled, shader, read, written) ==
    IF ~enabled THEN s
    ELSE [gpu |-> s.gpu,
          log |-> Append(s.log, [e |-> "Dispatch", resource |-> <<0, shader>>,
                                 StateBefore |-> s.gpu[read], StateAfter |-> s.gpu[written],
                                 was |-> ""])]

\* Execute leaving the input texture in UNORDERED_ACCESS.
boxblur_Execute_NoRestore(ctx, g) ==
    IF ~ctx.texture_InputTexture THEN [ctx |-> ctx, gpu |-> g, log |-> <<>>]
    ELSE LET made  == EnsureResourcesCreated(ctx, g)
             in    == InputTexture(ctx)
             pp    == PingPongTexture(ctx)
             given == ctx.texture_InputTexture_state
             s0    == [gpu |-> made.gpu, log |-> <<>>]
             s1    == IF given # NPSR THEN Transition(s0, in, given, NPSR) ELSE s0
             s2    == Dispatch(Transition(s1, pp, NPSR, UAV), ctx.variable_enabled, "BlurH", in, pp)
             s3    == Dispatch(Transition(Transition(s2, in, NPSR, UAV), pp, UAV, NPSR),
                               ctx.variable_enabled, "BlurV", pp, in)
         IN  [ctx |-> made.ctx, gpu |-> s3.gpu, log |-> s3.log]

\* Execute(context, device, commandList)
boxblur_Execute(ctx, g) ==
    IF ~ctx.texture_InputTexture THEN [ctx |-> ctx, gpu |-> g, log |-> <<>>]
    ELSE LET made  == EnsureResourcesCreated(ctx, g)
             in    == InputTexture(ctx)
             pp    == PingPongTexture(ctx)
             given == ctx.texture_InputTexture_state
             s0    == [gpu |-> made.gpu, log |-> <<>>]
             s1    == IF given # NPSR THEN Transition(s0, in, given, NPSR) ELSE s0
             s2    == Dispatch(Transition(s1, pp, NPSR, UAV), ctx.variable_enabled, "BlurH", in, pp)
             s3    == Dispatch(Transition(Transition(s2, in, NPSR, UAV), pp, UAV, NPSR),
                               ctx.variable_enabled, "BlurV", pp, in)
             s4    == IF given # UAV THEN Transition(s3, in, UAV, given)
                      ELSE [gpu |-> s3.gpu,      \* a D3D12_RESOURCE_BARRIER_TYPE_UAV barrier
                            log |-> Append(s3.log, [e |-> "UAV", resource |-> in, StateBefore |-> "",
                                                    StateAfter |-> "", was |-> s3.gpu[in]])]
         IN  [ctx |-> made.ctx, gpu |-> s4.gpu, log |-> s4.log]

\* No technique context has been created.
NoTechnique ==
    /\ s_allContexts = <<>>
    /\ shared = {}
    /\ gpu = <<>>

(***************************************************************************)
(* The state machine: one action per host call.                            *)
(***************************************************************************)
Self ==
    [m_compileResult |-> m_compileResult, m_renderGraph |-> m_renderGraph,
     m_runtimeVariables |-> m_runtimeVariables, m_variableStorage |-> m_variableStorage,
     m_RuntimeData |-> m_RuntimeData]

Becomes(I) ==
    /\ m_compileResult' = I.m_compileResult
    /\ m_renderGraph' = I.m_renderGraph
    /\ m_runtimeVariables' = I.m_runtimeVariables
    /\ m_variableStorage' = I.m_variableStorage
    /\ m_RuntimeData' = I.m_RuntimeData

Call(op, ret, result, arg) == [op |-> op, ret |-> ret, result |-> result, arg |-> arg]

\* A newly constructed interpreter.
New ==
    /\ m_compileResult = "NotCompiledYet"
    /\ m_renderGraph = EmptyGraph
    /\ m_runtimeVariables = <<>>
    /\ m_variableStorage = <<>>
    /\ m_RuntimeData = <<>>
    /\ lastCall = Call("new", TRUE, "", <<>>)
    /\ trace = <<>>
    /\ lastCompileRet = "None"
    /\ frames = 0
    /\ sinceFresh = -1
    /\ m_tempDirectory = <<>>
    /\ disk = <<>>
    /\ NoTechnique

Init == New /\ files = {ChainGraph}

\* A newly constructed interpreter whose host has files for these graphs.
InitFiles(graphs) == New /\ files = graphs

InitRadius == New /\ files = RadiusGraphs


CompileCall ==
    \E graph \in files, compilerResult \in CompilerResults :
    \E eff \in IF compilerResult = "OK" THEN Effects ELSE {CHOOSE e \in Effects : ~e.set},
       leftGraph \in IF compilerResult = "OK" THEN {graph} ELSE {EmptyGraph, graph},
       results \in IF compilerResult = "OK" THEN NodeResults(Len(graph.flattenedNodeList)) ELSE {<<>>} :
        LET fresh == \A i \in 1..Len(graph.variables) :
                        <<graph.variables[i].name, graph.variables[i].type>> \notin DOMAIN m_variableStorage
        IN  \E r \in {Compile(Self, graph, compilerResult, leftGraph, results, eff)} :
            /\ Becomes(r.I)
            /\ lastCall' = Call("Compile", r.ret = "OK", r.ret, <<>>)
            /\ trace' = r.trace
            /\ lastCompileRet' = r.ret
            /\ frames' = frames
            /\ sinceFresh' = IF compilerResult = "OK" /\ fresh THEN 0 ELSE -1
            /\ m_tempDirectory' = TempDirectory(ThisInstance)
            /\ disk' = CompileScratch(disk, ThisInstance,
                                      Artifacts(ThisInstance, compilerResult = "OK" \/ leftGraph # EmptyGraph))
            /\ UNCHANGED <<files, s_allContexts, shared, gpu>>

ExecuteCall ==
    /\ m_compileResult = "OK" => frames < MaxFrames
    /\ \E results \in NodeResults(Len(m_renderGraph.flattenedNodeList)), eff \in Effects, garbage \in Garbage :
        \E r \in {Execute(Self, results, eff, garbage)} :
            /\ Becomes(r.I)
            /\ lastCall' = Call("Execute", r.ret, "", <<>>)
            /\ trace' = r.trace
            /\ lastCompileRet' = lastCompileRet
            /\ frames' = IF m_compileResult = "OK" THEN frames + 1 ELSE frames
            /\ sinceFresh' = IF m_compileResult = "OK" /\ sinceFresh >= 0 THEN sinceFresh + 1 ELSE sinceFresh
            /\ UNCHANGED <<files, s_allContexts, shared, gpu, m_tempDirectory, disk>>

ClearCall ==
    /\ \E I \in {Clear(Self)} : Becomes(I)
    /\ lastCall' = Call("Clear", TRUE, "", <<>>)
    /\ trace' = <<>>
    /\ sinceFresh' = -1
    /\ UNCHANGED <<lastCompileRet, frames, files, s_allContexts, shared, gpu, m_tempDirectory, disk>>

SetRuntimeVariableFromStringCall ==
    /\ m_compileResult = "OK"
    /\ frames < MaxFrames
    /\ \E index \in 0..(Len(m_runtimeVariables) - 1), textValue \in TextsFor(m_renderGraph) :
        /\ \E I \in {SetRuntimeVariableFromString(Self, index, textValue)} : Becomes(I)
        /\ lastCall' = Call("SetRuntimeVariableFromString", TRUE, textValue, <<index>>)
    /\ trace' = <<>>
    /\ sinceFresh' = -1
    /\ frames' = frames + 1
    /\ UNCHANGED <<lastCompileRet, files, s_allContexts, shared, gpu, m_tempDirectory, disk>>

SetRuntimeVariableToDfltCall ==
    /\ m_compileResult = "OK"
    /\ frames < MaxFrames
    /\ \E index \in 0..(Len(m_runtimeVariables) - 1) :
        /\ \E I \in {SetRuntimeVariableToDflt(Self, index)} : Becomes(I)
        /\ lastCall' = Call("SetRuntimeVariableToDflt", TRUE, "", <<index>>)
    /\ trace' = <<>>
    /\ sinceFresh' = -1
    /\ frames' = frames + 1
    /\ UNCHANGED <<lastCompileRet, files, s_allContexts, shared, gpu, m_tempDirectory, disk>>

\* Compile, Execute and Clear in any order.
Next ==
    \/ CompileCall
    \/ ExecuteCall
    \/ ClearCall

Spec == Init /\ [][Next]_vars

SpecRadius == InitRadius /\ [][Next]_vars

SpecOrder == InitFiles(OrderGraphs) /\ [][Next]_vars


\* Another interpreter object, of this process or of another one, compiles.
OtherCompileCall ==
    /\ \E instance \in Instances \ {ThisInstance}, wrote \in BOOLEAN :
        /\ disk' = CompileScratch(disk, instance, Artifacts(instance, wrote))
        /\ lastCall' = Call("OtherCompile", TRUE, "", <<instance, wrote>>)
    /\ trace' = <<>>
    /\ UNCHANGED <<m_compileResult, m_renderGraph, m_runtimeVariables, m_variableStorage,
                   m_RuntimeData, lastCompileRet, frames, sinceFresh, files, s_allContexts, shared, gpu, m_tempDirectory>>

NextScratch ==
    \/ CompileCall
    \/ ExecuteCall
    \/ ClearCall
    \/ OtherCompileCall

SpecScratch == InitFiles({TypesGraph}) /\ [][NextScratch]_vars

(***************************************************************************)
(* The condition evaluator on its own: an interpreter that has compiled    *)
(* ChainGraph and whose variables the host has set, asked to evaluate      *)
(* conditions.                                                             *)
(***************************************************************************)
NewInterpreter ==
    [m_compileResult |-> "NotCompiledYet", m_renderGraph |-> EmptyGraph, m_runtimeVariables |-> <<>>,
     m_variableStorage |-> <<>>, m_RuntimeData |-> <<>>]

\* The interpreter after a successful Compile of a graph, its node data as
\* the Init actions left them (untouched).
Compiled(graph) ==
    Compile(NewInterpreter, graph, "OK", graph, [i \in 1..Len(graph.flattenedNodeList) |-> TRUE],
            CHOOSE e \in Effects : ~e.set).I

\* The conditions the host asks about: every comparison, with and without a
\* second variable (of the first one's type), with two literals.
HostConditions ==
    {[variable1Index |-> v[1], variable2Index |-> v[2], value2 |-> value2,
      comparison |-> comparison, alwaysFalse |-> alwaysFalse] :
        v \in {<<-1, -1>>, <<-1, 0>>, <<0, -1>>, <<0, 0>>, <<0, 1>>, <<2, -1>>, <<2, 2>>,
               <<3, -1>>, <<3, 3>>, <<4, -1>>, <<4, 4>>},
        value2 \in {<<"3">>, <<"S", "l", "o", "w">>, <<"m", "o", "d", "e", ":", ":", "F", "A", "S", "T">>,
                    <<"M", "o", "d", "e", ":", ":">>},
        comparison \in {"IsTrue", "IsFalse", "Equals", "NotEquals", "LT", "LTE", "GT", "GTE", "Count"},
        alwaysFalse \in BOOLEAN}

\* The conditions asked about VectorGraph: a variable against a literal and
\* against the other variable of its type.
VectorConditions ==
    {[variable1Index |-> v[1], variable2Index |-> v[2], value2 |-> value2,
      comparison |-> comparison, alwaysFalse |-> alwaysFalse] :
        v \in {<<-1, -1>>, <<0, -1>>, <<0, 1>>, <<1, 0>>, <<2, -1>>, <<2, 3>>, <<3, 2>>, <<4, -1>>},
        value2 \in {<<"1", ",", " ", "2", ",", " ", "3">>, <<"0", ",", " ", "0", ",", " ", "0">>, <<"2", ",", " ", "1">>},
        comparison \in {"IsTrue", "IsFalse", "Equals", "NotEquals", "LT", "LTE", "GT", "GTE", "Count"},
        alwaysFalse \in BOOLEAN}

\* The conditions the host asks about the graph it compiled.
ConditionsFor(graph) == IF graph = VectorGraph THEN VectorConditions ELSE HostConditions

InitVector ==
    /\ \E ta \in VectorTexts, tb \in VectorTexts :
        \E I \in {SetRuntimeVariableFromString(SetRuntimeVariableFromString(Compiled(VectorGraph), 0, ta), 1, tb)} :
            /\ m_compileResult = I.m_compileResult
            /\ m_renderGraph = I.m_renderGraph
            /\ m_runtimeVariables = I.m_runtimeVariables
            /\ m_variableStorage = I.m_variableStorage
            /\ m_RuntimeData = I.m_RuntimeData
    /\ lastCall = Call("SetRuntimeVariableFromString", TRUE, "", <<1>>)
    /\ trace = <<>>
    /\ lastCompileRet = "OK"
    /\ frames = 0
    /\ sinceFresh = -1
    /\ files = {VectorGraph}
    /\ NoTechnique
    /\ m_tempDirectory = TempDirectory(ThisInstance)
    /\ disk = CompileScratch(<<>>, ThisInstance, Artifacts(ThisInstance, TRUE))

InitEval ==
    /\ \E tx \in {<<"0">>, <<"3">>}, ty \in {<<"0">>, <<"3">>},
          tflag \in {<<"f", "a", "l", "s", "e">>, <<"t", "r", "u", "e">>},
          tmode \in {<<"F", "a", "s", "t">>, <<"M", "o", "d", "e", ":", ":", "S", "l", "o", "w">>, <<"-", "1">>} :
        \E I \in {SetRuntimeVariableFromString(
                    SetRuntimeVariableFromString(
                      SetRuntimeVariableFromString(
                        SetRuntimeVariableFromString(Compiled(ChainGraph), 0, tx), 1, ty), 2, tflag), 3, tmode)} :
            /\ m_compileResult = I.m_compileResult
            /\ m_renderGraph = I.m_renderGraph
            /\ m_runtimeVariables = I.m_runtimeVariables
            /\ m_variableStorage = I.m_variableStorage
            /\ m_RuntimeData = I.m_RuntimeData
    /\ lastCall = Call("SetRuntimeVariableFromString", TRUE, "", <<3>>)
    /\ trace = <<>>
    /\ lastCompileRet = "OK"
    /\ frames = 0
    /\ sinceFresh = -1
    /\ files = {ChainGraph}
    /\ NoTechnique
    /\ m_tempDirectory = TempDirectory(ThisInstance)
    /\ disk = CompileScratch(<<>>, ThisInstance, Artifacts(ThisInstance, TRUE))

\* Evaluating changes nothing in the interpreter, so one evaluation from each
\* host-made state covers every evaluation.
EvaluateConditionCall ==
    /\ m_compileResult = "OK"
    /\ lastCall.op # "EvaluateCondition"
    /\ \E condition \in ConditionsFor(m_renderGraph) :
        lastCall' = Call("EvaluateCondition", EvaluateCondition(Self, condition), "", condition)
    /\ UNCHANGED <<m_compileResult, m_renderGraph, m_runtimeVariables, m_variableStorage, m_RuntimeData,
                   trace, lastCompileRet, frames, sinceFresh, files, s_allContexts, shared, gpu, m_tempDirectory, disk>>

NextEval == EvaluateConditionCall

SpecEval == InitEval /\ [][NextEval]_vars

SpecVector == InitVector /\ [][NextEval]_vars

\* ---------------------------------------------------------------------------
\* Frames of one compiled graph.


\* The host has compiled one of the graphs and goes on to call Execute.
InitCompiled(graphs) ==
    /\ \E graph \in graphs :
        \E I \in {Compiled(graph)} :
            /\ m_compileResult = I.m_compileResult
            /\ m_renderGraph = I.m_renderGraph
            /\ m_runtimeVariables = I.m_runtimeVariables
            /\ m_variableStorage = I.m_variableStorage
            /\ m_RuntimeData = I.m_RuntimeData
            /\ files = {graph}
            /\ NoTechnique
    /\ lastCall = Call("Compile", TRUE, "OK", <<>>)
    /\ trace = <<>>
    /\ lastCompileRet = "OK"
    /\ frames = 0
    /\ sinceFresh = 0
    /\ m_tempDirectory = TempDirectory(ThisInstance)
    /\ disk = CompileScratch(<<>>, ThisInstance, Artifacts(ThisInstance, TRUE))

\* Execute, frame after frame.
NextFrames == ExecuteCall

SpecOperand ==
    InitCompiled({StatementGraph(setVar) : setVar \in OperandStatements}) /\ [][NextFrames]_vars

SpecIndex ==
    InitCompiled({StatementGraph(setVar) : setVar \in IndexStatements}) /\ [][NextFrames]_vars

SpecResource ==
    InitCompiled({ResourceGraph(order) : order \in {<<1, 2, 0>>, <<2, 1, 0>>, <<0, 2, 1>>}}) /\ [][NextFrames]_vars

SpecDestination ==
    InitCompiled({StatementGraph(setVar) : setVar \in DestinationStatements}) /\ [][NextFrames]_vars

\* The host has compiled ChainGraph and sets its variables from text.
NextSet == SetRuntimeVariableFromStringCall

SpecSet == InitCompiled({ChainGraph}) /\ [][NextSet]_vars

(***************************************************************************)
(* The variable storage on its own: an interpreter that has compiled       *)
(* TypesGraph, whose host sets, resets and reads back the variables.       *)
(***************************************************************************)
CompiledTypes ==
    Compile(NewInterpreter, TypesGraph, "OK", TypesGraph, <<>>, CHOOSE e \in Effects : ~e.set).I

InitStorage ==
    /\ m_compileResult = CompiledTypes.m_compileResult
    /\ m_renderGraph = CompiledTypes.m_renderGraph
    /\ m_runtimeVariables = CompiledTypes.m_runtimeVariables
    /\ m_variableStorage = CompiledTypes.m_variableStorage
    /\ m_RuntimeData = CompiledTypes.m_RuntimeData
    /\ lastCall = Call("Compile", TRUE, "OK", <<>>)
    /\ trace = <<>>
    /\ lastCompileRet = "OK"
    /\ frames = 0
    /\ sinceFresh = -1
    /\ files = {TypesGraph}
    /\ NoTechnique
    /\ m_tempDirectory = TempDirectory(ThisInstance)
    /\ disk = CompileScratch(<<>>, ThisInstance, Artifacts(ThisInstance, TRUE))

\* The host reads a variable as text and sets it from that text.  Doing so
\* twice in a row is doing it once more from the state the first left.
GetThenSetCall ==
    /\ m_compileResult = "OK"
    /\ lastCall.op # "GetThenSet"
    /\ \E index \in 0..(Len(m_runtimeVariables) - 1) :
        \E got \in {GetValueAsString(m_variableStorage, GetRuntimeVariable(Self, index).variable)} :
            /\ m_variableStorage' = SetValueFromString(got.vs, GetRuntimeVariable(Self, index).variable, got.text)
            /\ lastCall' = Call("GetThenSet", TRUE, got.text, <<index>>)
    /\ trace' = <<>>
    /\ sinceFresh' = -1
    /\ UNCHANGED <<m_compileResult, m_renderGraph, m_runtimeVariables, m_RuntimeData,
                   lastCompileRet, frames, files, s_allContexts, shared, gpu, m_tempDirectory, disk>>

NextStorage ==
    \/ SetRuntimeVariableFromStringCall
    \/ SetRuntimeVariableToDfltCall
    \/ GetThenSetCall

SpecStorage == InitStorage /\ [][NextStorage]_vars

\* ---------------------------------------------------------------------------
\* DoOp<T> alone: one application to operands drawn from the edges of each type.

OpTypes == {"Int", "Uint", "Uint_16", "Bool", "Float"}

OpNames == {"Add", "Subtract", "Multiply", "Divide", "Modulo", "PowerOf2GE", "Noop"}

\* SetVariableOperator
SetVariableOperators ==
    {"Add", "Subtract", "Multiply", "Divide", "Modulo", "BitwiseOr", "BitwiseAnd", "BitwiseXor",
     "BitwiseNot", "PowerOf2GE", "Noop"}

\* The operators applied to operands of a type.
OperatorsFor(T) == IF T \in {"Bool", "Float"} THEN SetVariableOperators ELSE OpNames

\* What the destination holds before the operation.
DestinationsFor(T) == IF T = "Bool" THEN {0, 1} ELSE {0, 99}

\* The first operand: zero, small values, the neighbours of 2^24, 2^15 and
\* 2^31, and the ends of each type's range (uint32_t as its bit pattern).
OperandsA(T) ==
    CASE T = "Int"     -> {IntMin, -7, -1, 0, 1, 5, 7, 8, 9, 16777216, 16777217,
                           1073741824, 1073741825, 2147483647}
      [] T = "Uint"    -> {0, 1, 5, 7, 8, 9, 16777216, 16777217, 2147483647, IntMin,
                           -2147483647, -1}
      [] T = "Uint_16" -> {0, 1, 5, 7, 8, 9, 255, 32768, 32769, 65535}
      [] T = "Bool"    -> {0, 1}
      [] T = "Float"   -> {-6, 0, 3, 8, 12}

OperandsB(T) ==
    CASE T = "Int"     -> {-2, -1, 0, 1, 2, 3}
      [] T = "Uint"    -> {0, 1, 2, 3, 7, -1}
      [] T = "Uint_16" -> {0, 1, 2, 3, 65535}
      [] T = "Bool"    -> {0, 1}
      [] T = "Float"   -> {-3, 0, 1, 2, 5}

InitOp ==
    /\ m_compileResult = "NotCompiledYet"
    /\ m_renderGraph = EmptyGraph
    /\ m_runtimeVariables = <<>>
    /\ m_variableStorage = <<>>
    /\ m_RuntimeData = <<>>
    /\ trace = <<>>
    /\ lastCompileRet = "None"
    /\ frames = 0
    /\ sinceFresh = -1
    /\ files = {}
    /\ NoTechnique
    /\ m_tempDirectory = <<>>
    /\ disk = <<>>
    /\ \E T \in OpTypes, garbage \in Garbage :
        \E op \in OperatorsFor(T), dest \in DestinationsFor(T), A \in OperandsA(T), B \in OperandsB(T) :
            /\ T = "Float" => FloatWhole(A, B, op)
            /\ lastCall = Call("operands", TRUE, dest,
                            [T |-> T, op |-> op, A |-> A, B |-> B, dest |-> dest,
                             garbage |-> garbage])

\* dest = A op B on the operands the state holds; the call log keeps the
\* operands, the value written and whether the operation was a defined one.
DoOpCall ==
    /\ lastCall.op = "operands"
    /\ \E in \in {lastCall.arg} :
        lastCall' = Call("DoOp", ~UndefinedOp(in.A, in.B, in.op, in.T),
                         DoOp(in.A, in.B, in.dest, in.op, in.T, in.garbage), in)
    /\ UNCHANGED <<m_compileResult, m_renderGraph, m_runtimeVariables, m_variableStorage,
                   m_RuntimeData, trace, lastCompileRet, frames, sinceFresh, files, s_allContexts, shared, gpu,
                   m_tempDirectory, disk>>

NextOp == DoOpCall

SpecOp == InitOp /\ [][NextOp]_vars

(***************************************************************************)
(* What a call's log says.                                                 *)
(***************************************************************************)
\* The positions of a log holding events of one kind.
EventsOf(tr, e) == {i \in DOMAIN tr : tr[i].e = e}

\* The statements of a log that ran their operation.
RanStatement(tr) == {i \in EventsOf(tr, "SetVar") : tr[i].r}

\* The last call was an Execute made with a graph compiled and installed.
ExecuteRan == lastCall.op = "Execute" /\ m_compileResult = "OK"

\* The statements of the installed graph that belong to a phase.
PhaseStatements(before) ==
    {k \in 0..(Len(m_renderGraph.setVars) - 1) :
        At(m_renderGraph.setVars, k).destination # -1 /\ At(m_renderGraph.setVars, k).setBefore = before}

(***************************************************************************)
(* The lifecycle.                                                          *)
(***************************************************************************)
\* C1: after a Compile that returned anything but OK (InterpreterError from a
\* failed Init included), Execute returns true, runs no SetVariable statement
\* and invokes no node Execute action.
C1_ExecuteAfterFailedCompileIsNoop ==
    (lastCall.op = "Execute" /\ lastCompileRet \notin {"None", "OK"})
        => /\ lastCall.ret = TRUE
           /\ EventsOf(trace, "Execute") = {}
           /\ EventsOf(trace, "SetVar") = {}

\* C2: when the stored compile result is not OK, Execute returns true, invokes
\* no node action, runs neither SetVariable phase and changes no variable.
C2_ExecuteWithoutCompiledGraph ==
    [][(lastCall'.op = "Execute" /\ m_compileResult # "OK")
          => /\ lastCall'.ret = TRUE
             /\ trace' = <<>>
             /\ UNCHANGED <<m_compileResult, m_renderGraph, m_runtimeVariables,
                            m_variableStorage, m_RuntimeData>>]_vars

C2_Witness ==
    /\ lastCall.op = "Execute"
    /\ m_compileResult = "CompilerFailure"
    /\ DOMAIN m_variableStorage # {}
    /\ Len(m_renderGraph.setVars) > 0
    /\ lastCall.ret = TRUE

\* C3: an Execute of a compiled graph runs every pre-phase statement, in
\* declared order, before the first node Execute action, then the nodes once
\* each in flattenedNodeList order, then (when it returns true) every
\* post-phase statement after the last node; no statement runs in both phases.
C3_ExecuteOrder ==
    ExecuteRan =>
        LET pre   == {i \in EventsOf(trace, "SetVar") : trace[i].b = 1}
            post  == {i \in EventsOf(trace, "SetVar") : trace[i].b = 0}
            nodes == EventsOf(trace, "Execute")
            flat  == m_renderGraph.flattenedNodeList
        IN  /\ DOMAIN trace = pre \cup nodes \cup post
            /\ \A i \in pre, j \in nodes : i < j
            /\ \A i \in nodes, j \in post : i < j
            /\ \A i \in pre, j \in post : i < j /\ trace[i].a # trace[j].a
            /\ \A i, j \in pre \cup post : (i < j /\ trace[i].b = trace[j].b) => trace[i].a < trace[j].a
            /\ {trace[i].a : i \in pre} = PhaseStatements(TRUE)
            /\ \A i \in nodes : /\ trace[i].a = i - Cardinality(pre) - 1
                                /\ InRange(flat, trace[i].a)
                                /\ trace[i].b = At(flat, trace[i].a)
            /\ (\A i \in nodes : trace[i].r) => /\ Cardinality(nodes) = Len(flat)
                                                /\ {trace[j].a : j \in post} = PhaseStatements(FALSE)
                                                /\ lastCall.ret = TRUE

C3_Witness ==
    /\ ExecuteRan
    /\ lastCall.ret = TRUE
    /\ Cardinality(EventsOf(trace, "Execute")) = 3
    /\ \E i, j \in RanStatement(trace) : trace[i].b = 1 /\ trace[j].b = 0

\* C4: when the node Execute action at position k returns false, Execute
\* returns false, invokes no node after position k and runs no post-phase
\* statement.
C4_ExecuteStopsAtFailedNode ==
    ExecuteRan =>
        \A i \in EventsOf(trace, "Execute") :
            ~trace[i].r => /\ lastCall.ret = FALSE
                           /\ i = Len(trace)
                           /\ \A j \in EventsOf(trace, "SetVar") : trace[j].b = 1

C4_Witness ==
    /\ ExecuteRan
    /\ lastCall.ret = FALSE
    /\ trace # <<>>
    /\ trace[Len(trace)].e = "Execute" /\ trace[Len(trace)].a = 1 /\ ~trace[Len(trace)].r
    /\ PhaseStatements(FALSE) # {}
    /\ Len(m_renderGraph.flattenedNodeList) = 3

\* C5: when the Init action at position k returns false, Compile returns
\* InterpreterError and invokes no Init action for a later node.
C5_CompileStopsAtFailedInit ==
    lastCall.op = "Compile" =>
        \A i \in EventsOf(trace, "Init") :
            ~trace[i].r => /\ lastCall.result = "InterpreterError"
                           /\ i = Len(trace)

C5_Witness ==
    /\ lastCall.op = "Compile"
    /\ lastCall.result = "InterpreterError"
    /\ trace[Len(trace)].e = "Init" /\ trace[Len(trace)].a = 1 /\ ~trace[Len(trace)].r
    /\ Len(m_renderGraph.flattenedNodeList) = 3

\* C6: a Compile whose graph compilation succeeds runs, in this order, the
\* pre-compile hook, the graph compilation, CreateVariableStorage, the
\* OnCompileOK hook and then one Init action per entry of flattenedNodeList in
\* list order; it dispatches no Execute action and returns OK when every Init
\* returns true.
C6_CompileOrder ==
    (lastCall.op = "Compile" /\ Len(trace) >= 2 /\ trace[2].r) =>
        LET inits == EventsOf(trace, "Init")
            flat  == m_renderGraph.flattenedNodeList
        IN  /\ Len(trace) >= 4
            /\ <<trace[1].e, trace[2].e, trace[3].e, trace[4].e>>
                 = <<"OnPreCompile", "GigiCompile", "CreateVariableStorage", "OnCompileOK">>
            /\ inits = 5..Len(trace)
            /\ \A i \in inits : /\ trace[i].a = i - 5
                                /\ InRange(flat, trace[i].a)
                                /\ trace[i].b = At(flat, trace[i].a)
            /\ EventsOf(trace, "Execute") = {}
            /\ (\A i \in inits : trace[i].r) => /\ Cardinality(inits) = Len(flat)
                                                /\ lastCall.result = "OK"

C6_Witness ==
    /\ lastCall.op = "Compile"
    /\ lastCall.result = "OK"
    /\ Len(trace) = 7
    /\ trace[7].e = "Init" /\ trace[7].r /\ trace[7].b = 0

\* C7: when the graph compiler reports a failure, Compile returns exactly that
\* result, creates no runtime variable storage and invokes neither OnCompileOK
\* nor any Init action.
C7_CompilerFailure ==
    [][(lastCall'.op = "Compile" /\ ~trace'[2].r)
          => /\ trace'[2].e = "GigiCompile"
             /\ lastCall'.result = trace'[2].c1[1]
             /\ lastCall'.result # "OK"
             /\ EventsOf(trace', "CreateVariableStorage") = {}
             /\ EventsOf(trace', "OnCompileOK") = {}
             /\ EventsOf(trace', "Init") = {}
             /\ UNCHANGED <<m_runtimeVariables, m_variableStorage>>]_vars

C7_Witness ==
    /\ lastCall.op = "Compile"
    /\ lastCall.result = "CompilerFailure"
    /\ Len(trace) = 2
    /\ DOMAIN m_variableStorage = {}
    /\ Len(m_renderGraph.variables) > 0

(***************************************************************************)
(* SetVariable statements.                                                 *)
(***************************************************************************)
\* d * 2^k mod 2^32 on the 16-bit halves of d, as a 32-bit pattern.
TimesPowerOfTwo(d, k) ==
    LET lo == Lo16(d) * (2 ^ k)
    IN  FromLimbs((Hi16(d) * (2 ^ k) + lo \div 65536) % 65536, lo % 65536)

ValueSeen(start, rv, setVars, tr, p, v) ==
    LET W == {q \in 1..(p - 1) : tr[q].e = "SetVar" /\ tr[q].r /\ At(setVars, tr[q].a).destination = v}
    IN  IF W = {} THEN start[At(rv, v).storage].value
        ELSE tr[CHOOSE q \in W : \A q2 \in W : q2 <= q].D

\* C9: the statements of a phase take effect in list order: a statement whose
\* A operand, B operand or condition names a variable that an earlier statement
\* of the same Execute wrote reads the value that statement wrote, and the
\* variable ends the call with the last value written to it.
C9_StatementsTakeEffectInOrder ==
    [][(lastCall'.op = "Execute" /\ m_compileResult = "OK")
          => LET setVars == m_renderGraph.setVars
                 tr      == trace'
                 seen(p, v) == ValueSeen(m_variableStorage, m_runtimeVariables, setVars, tr, p, v)
             IN  /\ \A p \in EventsOf(tr, "SetVar") :
                       LET st == At(setVars, tr[p].a)
                           c  == st.condition
                       IN  /\ (~c.alwaysFalse /\ c.variable1Index # -1 /\ c.comparison # "Count")
                                 => /\ tr[p].c1 = seen(p, c.variable1Index)
                                    /\ c.variable2Index # -1 => tr[p].c2 = seen(p, c.variable2Index)
                           /\ (tr[p].r /\ st.ANode = NoNode /\ st.AVar # -1)
                                 => SubSeq(tr[p].A, 1, Len(seen(p, st.AVar))) = seen(p, st.AVar)
                           /\ (tr[p].r /\ st.BNode = NoNode /\ st.BVar # -1)
                                 => SubSeq(tr[p].B, 1, Len(seen(p, st.BVar))) = seen(p, st.BVar)
                 /\ \A v \in 0..(Len(m_runtimeVariables) - 1) :
                       m_variableStorage'[At(m_runtimeVariables, v).storage].value = seen(Len(tr) + 1, v)]_vars

C9_Witness ==
    /\ ExecuteRan
    /\ \E p, q, r \in RanStatement(trace) :
          /\ p < q /\ q < r
          /\ trace[p].b = trace[q].b /\ trace[q].b = trace[r].b
          /\ At(m_renderGraph.setVars, trace[q].a).AVar = At(m_renderGraph.setVars, trace[p].a).destination
          /\ At(m_renderGraph.setVars, trace[q].a).ANode = NoNode
          /\ trace[q].A[1] = trace[p].D[1]
          /\ At(m_renderGraph.setVars, trace[r].a).condition.variable1Index
                = At(m_renderGraph.setVars, trace[p].a).destination
          /\ trace[r].c1 = trace[p].D

(***************************************************************************)
(* Conditions.                                                             *)
(***************************************************************************)
\* C10: EvaluateCondition returns true for every condition with alwaysFalse
\* false and comparison Count, whatever its variables and literal are.
C10_CountConditionIsTrue ==
    (lastCall.op = "EvaluateCondition" /\ ~lastCall.arg.alwaysFalse /\ lastCall.arg.comparison = "Count")
        => lastCall.ret = TRUE

C10_Witness ==
    /\ lastCall.op = "EvaluateCondition"
    /\ ~lastCall.arg.alwaysFalse
    /\ lastCall.arg.comparison = "Count"
    /\ lastCall.arg.variable1Index = 3
    /\ lastCall.arg.variable2Index = -1
    /\ lastCall.arg.value2 = <<"3">>
    /\ lastCall.ret = TRUE

\* A literal without its leading "<EnumName>::", matched without regard to case.
WithoutEnumPrefix(e, literal) ==
    LET n == Len(e.originalName) + 2
    IN  IF Len(literal) >= n /\ ToLowerText(SubSeq(literal, 1, n)) = ToLowerText(e.originalName \o <<":", ":">>)
        THEN SubSeq(literal, n + 1, Len(literal))
        ELSE literal

\* C11: for an int variable associated with an enum, Equals against a literal
\* (no variable2) is true exactly when the variable's current value is the
\* zero-based index of the item whose label is the literal, case-insensitively,
\* after an optional leading "<EnumName>::" is removed.
C11_EnumEqualsLiteral ==
    (/\ lastCall.op = "EvaluateCondition"
     /\ ~lastCall.arg.alwaysFalse
     /\ lastCall.arg.comparison = "Equals"
     /\ lastCall.arg.variable2Index = -1
     /\ lastCall.arg.variable1Index # -1
     /\ At(m_renderGraph.variables, lastCall.arg.variable1Index).type = "Int"
     /\ At(m_renderGraph.variables, lastCall.arg.variable1Index).enumIndex # -1)
        => LET v == At(m_renderGraph.variables, lastCall.arg.variable1Index)
               e == At(m_renderGraph.enums, v.enumIndex)
               label == ToLowerText(WithoutEnumPrefix(e, lastCall.arg.value2))
           IN  lastCall.ret
                 <=> \E i \in 1..Len(e.items) :
                        /\ ToLowerText(e.items[i].label) = label
                        /\ CurrentValue(Self, lastCall.arg.variable1Index) = <<i - 1>>

(***************************************************************************)
(* Runtime variables and per-node runtime data.                            *)
(***************************************************************************)
\* C12: in every reachable state there are as many runtime variables as the
\* current render graph has variables, and runtime variable i refers to
\* variable i of that graph.
C12_RuntimeVariablesMatchGraph ==
    /\ Len(m_runtimeVariables) = Len(m_renderGraph.variables)
    /\ \A i \in 1..Len(m_runtimeVariables) : m_runtimeVariables[i].variable = m_renderGraph.variables[i]

\* C13: after Clear() every node-kind registry is empty: a lookup of any node
\* name in any kind reports that the data does not exist.
C13_ClearEmptiesRegistries ==
    lastCall.op = "Clear" =>
        /\ DOMAIN m_RuntimeData = {}
        /\ \A i \in 1..Len(GraphNodes) : ~RuntimeDataExists(m_RuntimeData, GraphNodes[i].kind, GraphNodes[i].name)

C18_ResetToDefault ==
    [][lastCall'.op = "SetRuntimeVariableToDflt"
          => LET own   == At(m_runtimeVariables, lastCall'.arg[1]).storage
                 after == [m_compileResult |-> m_compileResult', m_renderGraph |-> m_renderGraph',
                           m_runtimeVariables |-> m_runtimeVariables',
                           m_variableStorage |-> m_variableStorage', m_RuntimeData |-> m_RuntimeData']
             IN  /\ DOMAIN m_variableStorage' = DOMAIN m_variableStorage
                 /\ m_variableStorage'[own].value = m_variableStorage[own].dflt
                 /\ \A key \in DOMAIN m_variableStorage :
                       /\ m_variableStorage'[key].dflt = m_variableStorage[key].dflt
                       /\ key # own => m_variableStorage'[key].value = m_variableStorage[key].value
                 /\ SetRuntimeVariableToDflt(after, lastCall'.arg[1]) = after]_vars

C18_Witness ==
    /\ lastCall.op = "SetRuntimeVariableToDflt"
    /\ lastCall.arg = <<1>>
    /\ CurrentValue(Self, 1) = <<-1, 0, 7>>
    /\ CurrentValue(Self, 0) = <<-7, 3, 0, 0>>
    /\ frames = 3

\* ---------------------------------------------------------------------------
\* The unsigned reading of a 32-bit word is below that of another.
BelowU32(x, y) ==
    \/ Hi16(x) < Hi16(y)
    \/ Hi16(x) = Hi16(y) /\ Lo16(x) < Lo16(y)

\* The quotient of A by B # 0 in type T, digit by digit: for uint32_t with a
\* word above 2^31 - 1, long division of the two 16-bit digits by a small B.
QuotientOf(A, B, T) ==
    CASE T = "Uint_16" -> A \div B
      [] T = "Int" /\ A >= 0 /\ B > 0 -> A \div B
      [] T = "Int" /\ A >= 0 /\ B < 0 -> -(A \div (-B))
      [] T = "Int" /\ A < 0 /\ B > 0  -> -((-(A + 1)) \div B) - (IF (-(A + 1)) % B = B - 1 THEN 1 ELSE 0)
      [] T = "Int" /\ A < 0 /\ B < 0 /\ A > IntMin -> (-A) \div (-B)
      [] T = "Int" /\ A = IntMin /\ B < -1 ->
             2147483647 \div (-B) + (IF 2147483647 % (-B) = (-B) - 1 THEN 1 ELSE 0)
      [] T = "Uint" /\ A >= 0 /\ B > 0 -> A \div B
      [] T = "Uint" /\ B < 0 -> IF BelowU32(A, B) THEN 0 ELSE 1
      [] T = "Uint" /\ A < 0 /\ B > 0 /\ B < 32768 ->
             LET qhi == Hi16(A) \div B
                 qlo == ((Hi16(A) % B) * 65536 + Lo16(A)) \div B
             IN  IF qhi >= 32768 THEN (qhi - 65536) * 65536 + qlo ELSE qhi * 65536 + qlo

\* C15: for int, uint16 and uint32, Divide with B = 0 writes 0 for every A and
\* does not fault, and Divide with B # 0 writes the quotient A / B.
C15_DivideGuarded ==
    (lastCall.op = "DoOp" /\ lastCall.arg.op = "Divide" /\ lastCall.arg.T \in {"Int", "Uint", "Uint_16"}) =>
        /\ lastCall.ret
        /\ lastCall.result = IF lastCall.arg.B = 0 THEN 0
                             ELSE QuotientOf(lastCall.arg.A, lastCall.arg.B, lastCall.arg.T)

\* The powers of two that are values of type T (2^31 as a uint32_t is the
\* word IntMin).
PowersOfTwo(T) ==
    {2 ^ k : k \in 0..(IF T = "Uint_16" THEN 15 ELSE 30)} \cup (IF T = "Uint" THEN {IntMin} ELSE {})

\* x < y in type T.
BelowIn(T, x, y) == IF T = "Uint" THEN BelowU32(x, y) ELSE x < y

\* C16: for the integer types, PowerOf2GE of a positive A writes the smallest
\* power of two that is >= A, whatever B is.
C16_PowerOf2GE ==
    (/\ lastCall.op = "DoOp"
     /\ lastCall.arg.op = "PowerOf2GE"
     /\ lastCall.arg.T \in {"Int", "Uint", "Uint_16"}
     /\ (lastCall.arg.T = "Uint" \/ lastCall.arg.A > 0)
     /\ lastCall.arg.A # 0) =>
        /\ lastCall.ret
        /\ lastCall.result \in PowersOfTwo(lastCall.arg.T)
        /\ ~BelowIn(lastCall.arg.T, lastCall.result, lastCall.arg.A)
        /\ \A p \in PowersOfTwo(lastCall.arg.T) :
              ~BelowIn(lastCall.arg.T, p, lastCall.arg.A) => ~BelowIn(lastCall.arg.T, p, lastCall.result)

\* ---------------------------------------------------------------------------
\* C17: when flattenedNodeList places each producer before its consumers, no
\* node's Execute action runs in an Execute call before the Execute actions of
\* all its producers have run in that same call.
C17_ProducersRunFirst ==
    (ExecuteRan /\ ValidOrder(m_renderGraph)) =>
        \A i \in EventsOf(trace, "Execute") :
            \A p \in Producers(m_renderGraph, trace[i].b) :
                \E j \in EventsOf(trace, "Execute") : j < i /\ trace[j].b = p

C17_Witness ==
    /\ ExecuteRan
    /\ m_renderGraph = OrderGraph(<<1, 3, 2, 0>>)
    /\ ValidOrder(m_renderGraph)
    /\ Cardinality(EventsOf(trace, "Execute")) = 4
    /\ trace[Len(trace)].b = 0

\* ---------------------------------------------------------------------------
\* C19: when Execute returns false because a node failed, nothing done earlier
\* in that call is undone: every variable keeps the last value a pre-phase
\* statement wrote to it and every node that ran keeps the runtime data its
\* action left; and the Execute that follows a failed one runs the pre-phase
\* and then the node at position 0, not the node after the failed one.
C19_NoRollback ==
    [][(lastCall'.op = "Execute" /\ m_compileResult = "OK")
          => LET tr    == trace'
                 nodes == m_renderGraph.nodes
                 pre   == {i \in EventsOf(tr, "SetVar") : tr[i].b = 1}
             IN  /\ ~lastCall'.ret
                    => /\ \E i \in EventsOf(tr, "Execute") : ~tr[i].r
                       /\ \A v \in 0..(Len(m_runtimeVariables) - 1) :
                             m_variableStorage'[At(m_runtimeVariables, v).storage].value
                                = ValueSeen(m_variableStorage, m_runtimeVariables,
                                            m_renderGraph.setVars, tr, Len(tr) + 1, v)
                       /\ \A i \in EventsOf(tr, "Execute") :
                             /\ RuntimeDataExists(m_RuntimeData', At(nodes, tr[i].b).kind, At(nodes, tr[i].b).name)
                             /\ <<m_RuntimeData'[<<At(nodes, tr[i].b).kind, At(nodes, tr[i].b).name>>]>> = tr[i].D
                 /\ (lastCall.op = "Execute" /\ ~lastCall.ret)
                    => /\ {tr[i].a : i \in pre} = PhaseStatements(TRUE)
                       /\ \E i \in EventsOf(tr, "Execute") :
                             /\ tr[i].a = 0
                             /\ tr[i].b = At(m_renderGraph.flattenedNodeList, 0)
                             /\ \A j \in pre : j < i
                             /\ \A j \in EventsOf(tr, "Execute") : i <= j]_vars

C19_Witness ==
    /\ ExecuteRan
    /\ ~lastCall.ret
    /\ \E p \in RanStatement(trace), i, j \in EventsOf(trace, "Execute") :
          /\ trace[p].b = 1
          /\ m_variableStorage[At(m_runtimeVariables, At(m_renderGraph.setVars, trace[p].a).destination).storage].value
                = trace[p].D
          /\ i < j /\ trace[i].r /\ ~trace[j].r
          /\ trace[i].D[1] # DefaultRuntimeData
          /\ m_RuntimeData[<<At(m_renderGraph.nodes, trace[i].b).kind, At(m_renderGraph.nodes, trace[i].b).name>>]
                = trace[i].D[1]

\* ---------------------------------------------------------------------------
\* C20: every Compile, whether the graph compile succeeds or fails, leaves in
\* the scratch directory only what the graph compiler wrote during that call
\* (the directory was deleted and recreated empty first); the directory's name
\* depends on the process id alone, so a Compile made by another interpreter
\* of the same process removes this interpreter's artifacts, while one made in
\* another process leaves them.
C20_ScratchDirectory ==
    [][/\ lastCall'.op = "Compile"
          => /\ m_tempDirectory' \in DOMAIN disk'
             /\ disk'[m_tempDirectory'] =
                   Artifacts(ThisInstance, m_compileResult' = "OK" \/ m_renderGraph' # EmptyGraph)
       /\ (lastCall'.op = "OtherCompile" /\ m_tempDirectory # <<>>)
          => IF lastCall'.arg[1].process = ThisInstance.process
             THEN /\ m_tempDirectory \in DOMAIN disk'
                  /\ disk'[m_tempDirectory] = Artifacts(lastCall'.arg[1], lastCall'.arg[2])
             ELSE /\ m_tempDirectory \in DOMAIN disk'
                  /\ disk'[m_tempDirectory] = disk[m_tempDirectory]]_vars

C20_Witness ==
    /\ lastCall.op = "OtherCompile"
    /\ lastCall.arg[1].process = ThisInstance.process
    /\ lastCall.arg[2]
    /\ m_compileResult = "OK"
    /\ m_tempDirectory \in DOMAIN disk
    /\ disk[m_tempDirectory] = {[by |-> lastCall.arg[1]]}
    /\ \E d \in DOMAIN disk : d # m_tempDirectory /\ disk[d] # {}

(***************************************************************************)
(* Statements.                                                             *)
(***************************************************************************)
\* The interpreter as statement p of the log tr found it: each variable with
\* the value seen at that moment.
AtMoment(I, tr, p) ==
    [I EXCEPT !.m_variableStorage =
        [key \in DOMAIN I.m_variableStorage |->
            IF \E v \in 0..(Len(I.m_runtimeVariables) - 1) : At(I.m_runtimeVariables, v).storage = key
            THEN [I.m_variableStorage[key] EXCEPT !.value =
                    ValueSeen(I.m_variableStorage, I.m_runtimeVariables, I.m_renderGraph.setVars, tr, p,
                              CHOOSE v \in 0..(Len(I.m_runtimeVariables) - 1) :
                                  At(I.m_runtimeVariables, v).storage = key)]
            ELSE I.m_variableStorage[key]]]

\* C21: in each phase of an Execute, a statement is executed if and only if
\* it has a destination, its setBefore flag equals the phase and its
\* condition is true when the loop reaches it; a statement that is skipped
\* changes no variable.
C21_ExecutedIffSelected ==
    [][(lastCall'.op = "Execute" /\ m_compileResult = "OK")
          => LET tr      == trace'
                 setVars == m_renderGraph.setVars
                 phases  == {1} \cup (IF lastCall'.ret THEN {0} ELSE {})
                 at(k, b) == {p \in EventsOf(tr, "SetVar") : tr[p].a = k /\ tr[p].b = b}
             IN  /\ \A b \in phases, k \in 0..(Len(setVars) - 1) :
                       LET st == At(setVars, k)
                       IN  /\ Cardinality(at(k, b)) <= 1
                           /\ (st.destination # -1 /\ st.setBefore = (b = 1)) <=> at(k, b) # {}
                           /\ \A p \in at(k, b) :
                                 /\ tr[p].r <=> EvaluateCondition(AtMoment(Self, tr, p), st.condition)
                                 /\ ~tr[p].r => tr[p].D = <<>>
                                 /\ tr[p].r => tr[p].D # <<>>
                 /\ \A p \in EventsOf(tr, "SetVar") : tr[p].b \in phases
                 /\ \A v \in 0..(Len(m_runtimeVariables) - 1) :
                       (\A p \in RanStatement(tr) : At(setVars, tr[p].a).destination # v)
                          => m_variableStorage'[At(m_runtimeVariables, v).storage]
                                = m_variableStorage[At(m_runtimeVariables, v).storage]]_vars

\* An Execute in which one statement ran, one was skipped for its false
\* condition, one for always being false and one for having no destination.
C21_Witness ==
    /\ ExecuteRan
    /\ lastCall.ret
    /\ \E p, q, r \in EventsOf(trace, "SetVar") :
          /\ trace[p].r /\ At(m_renderGraph.setVars, trace[p].a).condition.comparison # "Count"
          /\ ~trace[q].r /\ ~At(m_renderGraph.setVars, trace[q].a).condition.alwaysFalse
          /\ ~trace[r].r /\ At(m_renderGraph.setVars, trace[r].a).condition.alwaysFalse
    /\ \E k \in 0..(Len(m_renderGraph.setVars) - 1) : At(m_renderGraph.setVars, k).destination = -1

(***************************************************************************)
(* Conditions, continued.                                                  *)
(***************************************************************************)
\* C22: EvaluateCondition returns false for every condition with alwaysFalse
\* set, also when variable1 is unset or the comparison is Count.
C22_AlwaysFalseFirst ==
    (lastCall.op = "EvaluateCondition" /\ lastCall.arg.alwaysFalse) => lastCall.ret = FALSE

C22_Witness ==
    /\ lastCall.op = "EvaluateCondition"
    /\ lastCall.arg.alwaysFalse
    /\ lastCall.arg.variable1Index = -1
    /\ lastCall.arg.comparison = "Count"
    /\ lastCall.ret = FALSE

\* A compared with B in component type T, by the meaning of the comparison.
Holds(A, B, comparison, T) ==
    CASE comparison = "IsTrue"    -> A # 0
      [] comparison = "IsFalse"   -> A = 0
      [] comparison = "Equals"    -> A = B
      [] comparison = "NotEquals" -> A # B
      [] comparison = "LT"        -> BelowIn(T, A, B)
      [] comparison = "LTE"       -> BelowIn(T, A, B) \/ A = B
      [] comparison = "GT"        -> BelowIn(T, B, A)
      [] comparison = "GTE"       -> BelowIn(T, B, A) \/ A = B

\* The last call evaluated a condition that compares components.
ComparedComponents ==
    /\ lastCall.op = "EvaluateCondition"
    /\ ~lastCall.arg.alwaysFalse
    /\ lastCall.arg.variable1Index # -1
    /\ lastCall.arg.comparison # "Count"

\* C23: a condition on an N-component variable is true if and only if the
\* comparison holds for every one of the N components; IsTrue and IsFalse are
\* decided by variable1 alone.
C23_AllComponents ==
    ComparedComponents =>
        LET c    == lastCall.arg
            info == DataFieldTypeInfo(At(m_renderGraph.variables, c.variable1Index).type)
            A    == CurrentValue(Self, c.variable1Index)
            B    == IF c.variable2Index # -1 THEN CurrentValue(Self, c.variable2Index)
                    ELSE SetFromString(c.value2, info.componentCount, info.componentType2)
        IN  /\ Len(A) = info.componentCount
            /\ lastCall.ret <=> \A i \in 1..info.componentCount :
                                   Holds(A[i], B[i], c.comparison, info.componentType2)
            /\ c.comparison = "IsTrue"  => (lastCall.ret <=> \A i \in 1..info.componentCount : A[i] # 0)
            /\ c.comparison = "IsFalse" => (lastCall.ret <=> \A i \in 1..info.componentCount : A[i] = 0)

\* NotEquals on three components of which one differs and two are equal.
C23_Witness ==
    /\ ComparedComponents
    /\ lastCall.arg.comparison = "NotEquals"
    /\ lastCall.arg.variable1Index = 0 /\ lastCall.arg.variable2Index = 1
    /\ CurrentValue(Self, 0) = <<1, 2, 3>>
    /\ CurrentValue(Self, 1) = <<1, 5, 3>>
    /\ lastCall.ret = FALSE

\* The size of a texture or the count of a buffer as a registry holds it; a
\* node the registry does not know yet has the default.
DataOf(rd, kind, name) == IF <<kind, name>> \in DOMAIN rd THEN rd[<<kind, name>>] ELSE DefaultRuntimeData

\* What an operand (its node binding, variable and literal) stands for when
\* statement p of the log tr runs: texture size, else buffer count, else the
\* variable's value, else the literal.
OperandMeant(node, var, literal, rd, tr, p) ==
    LET info == DataFieldTypeInfo(At(m_renderGraph.variables, At(m_renderGraph.setVars, tr[p].a).destination).type)
    IN  IF node.textureNode # "" THEN DataOf(rd, "Resource_Texture", node.textureNode).m_size
        ELSE IF node.bufferNode # "" THEN <<DataOf(rd, "Resource_Buffer", node.bufferNode).m_count>>
        ELSE IF var # -1
        THEN ValueSeen(m_variableStorage, m_runtimeVariables, m_renderGraph.setVars, tr, p, var)
        ELSE SetFromString(literal, info.componentCount, info.componentType2)

IndexOr0(i) == IF i # -1 THEN i ELSE 0

\* C25: when destinationIndex, AVarIndex or BVarIndex is set, an executed
\* SetVariable writes exactly one destination component (destinationIndex, or
\* 0) from component AVarIndex of A (or 0) and component BVarIndex of B (or 0)
\* and leaves the other components as they were; when none is set it writes
\* every component i from A[i] and B[i].
C25_ComponentIndexing ==
    [][(lastCall'.op = "Execute" /\ m_compileResult = "OK")
          => \A p \in RanStatement(trace') :
                LET st     == At(m_renderGraph.setVars, trace'[p].a)
                    A      == trace'[p].A
                    B      == trace'[p].B
                    before == ValueSeen(m_variableStorage, m_runtimeVariables, m_renderGraph.setVars,
                                        trace', p, st.destination)
                    after  == trace'[p].D
                IN  (st.op = "Add")
                    => IF st.destinationIndex # -1 \/ st.AVarIndex # -1 \/ st.BVarIndex # -1
                       THEN after = [before EXCEPT ![IndexOr0(st.destinationIndex) + 1] =
                                        A[IndexOr0(st.AVarIndex) + 1] + B[IndexOr0(st.BVarIndex) + 1]]
                       ELSE after = [i \in 1..Len(before) |-> A[i] + B[i]]]_vars

\* d[2] = a[1] + b[0] ran and left d[0] and d[1] alone.
C25_Witness ==
    /\ ExecuteRan
    /\ \E p \in RanStatement(trace) :
          /\ At(m_renderGraph.setVars, trace[p].a).destinationIndex = 2
          /\ At(m_renderGraph.setVars, trace[p].a).AVarIndex = 1
          /\ At(m_renderGraph.setVars, trace[p].a).BVarIndex = 0
          /\ At(m_renderGraph.setVars, trace[p].a).AVar = 1
          /\ At(m_renderGraph.setVars, trace[p].a).BVar = 2
          /\ trace[p].D = <<10, 20, 6>>

(***************************************************************************)
(* Operators of bool and float.                                            *)
(***************************************************************************)
\* A bool as the byte that stores it.
ByteOf(b) == IF b THEN 1 ELSE 0

\* C26: for a bool destination BitwiseOr writes A or B, BitwiseAnd writes A
\* and B, BitwiseXor writes A xor B, BitwiseNot writes not A, Noop writes A.
C26_BoolOperators ==
    (lastCall.op = "DoOp" /\ lastCall.arg.T = "Bool") =>
        LET a  == lastCall.arg.A = 1
            b  == lastCall.arg.B = 1
            op == lastCall.arg.op
        IN  /\ op = "BitwiseOr"  => lastCall.result = ByteOf(a \/ b)
            /\ op = "BitwiseAnd" => lastCall.result = ByteOf(a /\ b)
            /\ op = "BitwiseXor" => lastCall.result = ByteOf(a # b)
            /\ op = "BitwiseNot" => lastCall.result = ByteOf(~a)
            /\ op = "Noop"       => lastCall.result = ByteOf(a)

\* true xor true wrote false over a destination that held true.
C26_Witness ==
    /\ lastCall.op = "DoOp"
    /\ lastCall.arg.T = "Bool"
    /\ lastCall.arg.op = "BitwiseXor"
    /\ lastCall.arg.A = 1 /\ lastCall.arg.B = 1 /\ lastCall.arg.dest = 1
    /\ lastCall.result = 0

\* The operators that are invalid for a component type.
InvalidFor(T) ==
    CASE T = "Bool"  -> {"Add", "Subtract", "Multiply", "Divide", "Modulo", "PowerOf2GE"}
      [] T = "Float" -> {"BitwiseOr", "BitwiseAnd", "BitwiseXor", "BitwiseNot"}
      [] OTHER       -> {}

\* C27: an operator that is invalid for the destination's component type
\* (arithmetic on bool, bitwise on float) leaves the destination as it was
\* and raises no error.
C27_InvalidOperatorIsNoop ==
    (lastCall.op = "DoOp" /\ lastCall.arg.op \in InvalidFor(lastCall.arg.T)) =>
        /\ lastCall.ret
        /\ lastCall.result = lastCall.arg.dest

\* A bitwise operator on floats left a destination that differs from A alone.
C27_Witness ==
    /\ lastCall.op = "DoOp"
    /\ lastCall.arg.T = "Float"
    /\ lastCall.arg.op = "BitwiseNot"
    /\ lastCall.arg.A = 8
    /\ lastCall.arg.dest = 99
    /\ lastCall.result = 99

(***************************************************************************)
(* Unmatched enum labels.                                                  *)
(***************************************************************************)
\* The condition compares an enum variable with a literal.
EnumLiteralCondition(condition) ==
    /\ ~condition.alwaysFalse
    /\ condition.comparison # "Count"
    /\ condition.variable1Index # -1
    /\ condition.variable2Index = -1
    /\ At(m_renderGraph.variables, condition.variable1Index).type = "Int"
    /\ At(m_renderGraph.variables, condition.variable1Index).enumIndex # -1

\* The literal of the condition matches no item of variable1's enum.
UnmatchedLabel(condition) ==
    LET e == At(m_renderGraph.enums, At(m_renderGraph.variables, condition.variable1Index).enumIndex)
    IN  \A i \in 1..Len(e.items) :
            ToLowerText(e.items[i].label) # ToLowerText(WithoutEnumPrefix(e, condition.value2))

\* C28: when the literal of a condition on an enum variable matches no item of
\* the enum, the -1 that the label resolution returns is not the right-hand
\* value the variable is compared with: the outcome is not the comparison of
\* the variable's value against -1.
C28_SentinelNotCompared ==
    (/\ lastCall.op = "EvaluateCondition"
     /\ EnumLiteralCondition(lastCall.arg)
     /\ UnmatchedLabel(lastCall.arg))
        => ~(/\ EnumRightHand(Self, lastCall.arg, <<0>>) = <<-1>>
             /\ lastCall.ret = DoComparison(CurrentValue(Self, lastCall.arg.variable1Index)[1], -1,
                                            lastCall.arg.comparison, "Int"))

(***************************************************************************)
(* Lazily created variable storage.                                        *)
(***************************************************************************)
\* C29: a Compile that reaches CreateVariableStorage makes one Get per variable
\* of the graph.  For a (name, type) key that was not stored, that first Get
\* creates the storage with the current value equal to the parsed default; for
\* a key already stored, the Get returns that same storage, parses the default
\* again and leaves the current value as it was.
C29_GetCreatesOnce ==
    [][(lastCall'.op = "Compile" /\ EventsOf(trace', "CreateVariableStorage") # {})
          => /\ DOMAIN m_variableStorage \subseteq DOMAIN m_variableStorage'
             /\ \A i \in 1..Len(m_renderGraph'.variables) :
                   LET variable == m_renderGraph'.variables[i]
                       info     == DataFieldTypeInfo(variable.type)
                       key      == <<variable.name, variable.type>>
                       dflt     == SetFromString(variable.dflt, info.componentCount, info.componentType2)
                   IN  /\ m_runtimeVariables'[i].storage = key
                       /\ m_variableStorage'[key].dflt = dflt
                       /\ m_variableStorage'[key].value =
                             IF key \in DOMAIN m_variableStorage THEN m_variableStorage[key].value ELSE dflt]_vars

\* A Compile has just made a later Get of a variable whose current value is
\* not its default.
C29_Witness ==
    /\ lastCall.op = "Compile"
    /\ EventsOf(trace, "CreateVariableStorage") # {}
    /\ \E i \in 0..(Len(m_runtimeVariables) - 1) :
          /\ CurrentValue(Self, i) # m_variableStorage[GetRuntimeVariable(Self, i).storage].dflt
          /\ CurrentValue(Self, i) # Zeros(Len(CurrentValue(Self, i)))

(***************************************************************************)
(* Per-node runtime data across frames.                                    *)
(***************************************************************************)
\* The registry key of the node an event of the log is about.
NodeKey(graph, ev) == <<At(graph.nodes, ev.b).kind, At(graph.nodes, ev.b).name>>

\* C30: a successful Compile leaves exactly one runtime data record per node
\* of the flattened list, the one its Init action received.  From then until
\* the next Compile no step removes or adds a record, and every Execute hands
\* each node's Execute action the record the registry held before the call
\* (so with every modification of earlier frames): what the action leaves is
\* the host's modification applied to that record, and it stays in the
\* registry; the records of nodes the frame did not reach are untouched.
C30_RuntimeDataPersists ==
    [][/\ (lastCall'.op = "Compile" /\ lastCompileRet' = "OK")
          => /\ DOMAIN m_RuntimeData'
                   = {NodeKey(m_renderGraph', trace'[i]) : i \in EventsOf(trace', "Init")}
             /\ Cardinality(DOMAIN m_RuntimeData') = Len(m_renderGraph'.flattenedNodeList)
             /\ \A i \in EventsOf(trace', "Init") :
                   <<m_RuntimeData'[NodeKey(m_renderGraph', trace'[i])]>> = trace'[i].D
       /\ (lastCall'.op # "Compile" /\ lastCompileRet = "OK")
          => DOMAIN m_RuntimeData' = DOMAIN m_RuntimeData
       /\ (lastCall'.op = "Execute" /\ m_compileResult = "OK" /\ lastCompileRet = "OK")
          => LET tr   == trace'
                 ran  == EventsOf(tr, "Execute")
                 keys == {NodeKey(m_renderGraph, tr[i]) : i \in ran}
             IN  /\ ran # {}
                 /\ keys \subseteq DOMAIN m_RuntimeData
                 /\ \E eff \in Effects : \A i \in ran :
                       tr[i].D = <<OnNodeAction(At(m_renderGraph.nodes, tr[i].b),
                                                m_RuntimeData[NodeKey(m_renderGraph, tr[i])], eff)>>
                 /\ \A i \in ran : <<m_RuntimeData'[NodeKey(m_renderGraph, tr[i])]>> = tr[i].D
                 /\ \A k \in DOMAIN m_RuntimeData \ keys : m_RuntimeData'[k] = m_RuntimeData[k]]_vars

\* The second or a later frame in a row after a successful Compile has handed
\* a node a record that an earlier action had modified.
C30_Witness ==
    /\ lastCall.op = "Execute"
    /\ lastCall.ret
    /\ lastCompileRet = "OK"
    /\ sinceFresh >= 2
    /\ \E i \in EventsOf(trace, "Execute") :
          /\ trace[i].D # <<DefaultRuntimeData>>
          /\ <<m_RuntimeData[NodeKey(m_renderGraph, trace[i])]>> = trace[i].D

(***************************************************************************)
(* Operands bound to resources.                                            *)
(***************************************************************************)
\* The record the Execute action of the node named name left in the log tr.
LeftByAction(tr, kind, name) ==
    LET i == CHOOSE i \in EventsOf(tr, "Execute") :
                 At(m_renderGraph.nodes, tr[i].b) = [kind |-> kind, name |-> name]
    IN  tr[i].D[1]

\* The size or count a resource operand stands for in phase b of a call.
ResourceSeen(node, b, rdBefore, tr) ==
    IF node.textureNode # ""
    THEN (IF b = 1 THEN DataOf(rdBefore, "Resource_Texture", node.textureNode)
                   ELSE LeftByAction(tr, "Resource_Texture", node.textureNode)).m_size
    ELSE <<(IF b = 1 THEN DataOf(rdBefore, "Resource_Buffer", node.bufferNode)
                     ELSE LeftByAction(tr, "Resource_Buffer", node.bufferNode)).m_count>>

\* C31: an operand bound to a texture or buffer is read when its statement
\* executes: in the post phase it is the size or count the node's Execute
\* action of the same call left, in the pre phase the one the registry held
\* when the call began, that is, what the previous call left.
C31_ResourceReadAtExecution ==
    [][(lastCall'.op = "Execute" /\ m_compileResult = "OK")
          => \A p \in RanStatement(trace') :
                LET st == At(m_renderGraph.setVars, trace'[p].a)
                IN  /\ st.ANode # NoNode
                       => /\ trace'[p].A = ResourceSeen(st.ANode, trace'[p].b, m_RuntimeData, trace')
                          /\ st.op = "Noop" => trace'[p].D = trace'[p].A
                    /\ st.BNode # NoNode
                       => /\ trace'[p].B = ResourceSeen(st.BNode, trace'[p].b, m_RuntimeData, trace')
                          /\ st.op = "Add" => trace'[p].D = <<trace'[p].A[1] + trace'[p].B[1]>>]_vars

\* In one call the pre-phase statement read the size the texture had before
\* the call and the post-phase statement the size the node action gave it.
C31_Witness ==
    /\ ExecuteRan
    /\ lastCall.ret
    /\ m_renderGraph = ResourceGraph(<<0, 2, 1>>)
    /\ \E p, q \in RanStatement(trace) :
          /\ trace[p].a = 0 /\ trace[p].A = <<0, 0, 0>>
          /\ trace[q].a = 2 /\ trace[q].A = <<4, 2, 1>>
    /\ CurrentValue(Self, 0) = <<0, 0, 0>>
    /\ CurrentValue(Self, 2) = <<4, 2, 1>>
    /\ CurrentValue(Self, 3) = <<4>>

(***************************************************************************)
(* Values across Compile and Clear.                                        *)
(***************************************************************************)
\* The parsed default of a variable of a graph.
ParsedDefault(variable) ==
    SetFromString(variable.dflt, DataFieldTypeInfo(variable.type).componentCount,
                  DataFieldTypeInfo(variable.type).componentType2)

\* C32: after a successful Compile every variable's default slice is the
\* parsed default of the compiled graph, and its current value equals that
\* default unless storage for its (name, type) was left by an earlier Compile
\* with no Clear() since, in which case it is the value it had before the
\* Compile.  Clear() leaves no storage, so the first successful Compile after
\* construction or after a Clear() sets every value to its default.
C32_ValueAfterCompile ==
    [][/\ lastCall'.op = "Clear" => DOMAIN m_variableStorage' = {}
       /\ (lastCall'.op = "Compile" /\ lastCompileRet' = "OK")
          => \A i \in 0..(Len(m_runtimeVariables') - 1) :
                LET variable == At(m_renderGraph'.variables, i)
                    key      == <<variable.name, variable.type>>
                    after    == m_variableStorage'[At(m_runtimeVariables', i).storage]
                IN  /\ after.dflt = ParsedDefault(variable)
                    /\ after.value = IF key \in DOMAIN m_variableStorage
                                     THEN m_variableStorage[key].value
                                     ELSE after.dflt
                    /\ lastCall.op \in {"new", "Clear"} => after.value = after.dflt
                    /\ (key \in DOMAIN m_variableStorage) => lastCall.op \notin {"new", "Clear"}]_vars

\* A successful re-Compile, of a graph with another default, has kept a value
\* that is neither the old default nor the new one.
C32_Witness ==
    /\ lastCall.op = "Compile"
    /\ lastCompileRet = "OK"
    /\ m_renderGraph = RadiusGraph(<<"1", "0", "7", "3", "7", "4", "1", "8", "2", "5">>)
    /\ CurrentValue(Self, 0) = <<2>>
    /\ m_variableStorage[GetRuntimeVariable(Self, 0).storage].dflt = <<1073741825>>

(***************************************************************************)
(* Division and modulo by zero.                                            *)
(***************************************************************************)
\* C33: for int, uint16 and uint32 operands, Divide and Modulo with B = 0 are
\* defined operations: they write a value (0 for Divide) and do not fault.
C33_NoDivisionByZero ==
    (/\ lastCall.op = "DoOp"
     /\ lastCall.arg.op \in {"Divide", "Modulo"}
     /\ lastCall.arg.T \in {"Int", "Uint", "Uint_16"}
     /\ lastCall.arg.B = 0)
        => /\ lastCall.ret
           /\ lastCall.arg.op = "Divide" => lastCall.result = 0

(***************************************************************************)
(* Operand reads.                                                          *)
(***************************************************************************)
\* The number of components an executed statement works on.
ComponentsWorked(st) ==
    IF st.destinationIndex # -1 \/ st.AVarIndex # -1 \/ st.BVarIndex # -1
    THEN 1
    ELSE DataFieldTypeInfo(At(m_renderGraph.variables, st.destination).type).componentCount

\* C34: an executed SetVariable reads of an operand that is a texture size, a
\* buffer count or a literal only components the operand holds: the highest
\* index read, its component index (or 0) plus the number of components
\* worked on less one, is below the operand's length.
C34_OperandReadsInBounds ==
    ExecuteRan
        => \A p \in RanStatement(trace) :
              LET st == At(m_renderGraph.setVars, trace[p].a)
              IN  /\ (st.ANode # NoNode \/ st.AVar = -1)
                     => IndexOr0(st.AVarIndex) + ComponentsWorked(st) - 1 < Len(trace[p].A)
                  /\ (st.BNode # NoNode \/ st.BVar = -1)
                     => IndexOr0(st.BVarIndex) + ComponentsWorked(st) - 1 < Len(trace[p].B)

(***************************************************************************)
(* What ExecuteSetVars writes.                                             *)
(***************************************************************************)
\* C35: an Execute changes only the current values of variables that are the
\* destination of a statement it executed: every default value is what it
\* was, and so is the current value of every variable no executed statement
\* has as its destination.
C35_OnlyDestinationsChange ==
    [][(lastCall'.op = "Execute" /\ m_compileResult = "OK")
          => \A v \in 0..(Len(m_runtimeVariables) - 1) :
                LET key == At(m_runtimeVariables, v).storage
                IN  /\ m_variableStorage'[key].dflt = m_variableStorage[key].dflt
                    /\ (\A p \in RanStatement(trace') : At(m_renderGraph.setVars, trace'[p].a).destination # v)
                          => m_variableStorage'[key].value = m_variableStorage[key].value]_vars

(***************************************************************************)
(* Setting an enum variable from text.                                     *)
(***************************************************************************)
\* The items of enum e whose label is the text, case aside, once a leading
\* "<EnumName>::" is removed.
ItemsNamed(e, text) ==
    {i \in 1..Len(e.items) : ToLowerText(e.items[i].label) = ToLowerText(WithoutEnumPrefix(e, text))}

\* C36: SetRuntimeVariableFromString(index, text) on a variable with an enum
\* stores the zero-based index of the item whose label is the text (with or
\* without the "<EnumName>::" prefix, in any case), and the text parsed as a
\* plain value of the variable's type when no item has that label; on a
\* variable without an enum it stores the parsed text.  No other variable and
\* no default changes.
C36_SetFromLabelOrText ==
    [][lastCall'.op = "SetRuntimeVariableFromString"
          => LET index    == lastCall'.arg[1]
                 text     == lastCall'.result
                 variable == At(m_renderGraph.variables, index)
                 info     == DataFieldTypeInfo(variable.type)
                 named    == IF variable.enumIndex = -1 THEN {}
                             ELSE ItemsNamed(At(m_renderGraph.enums, variable.enumIndex), text)
                 stored   == m_variableStorage'[At(m_runtimeVariables, index).storage].value
             IN  /\ named # {} => \E i \in named : stored = <<i - 1>> /\ \A j \in named : i <= j
                 /\ named = {} => stored = SetFromString(text, info.componentCount, info.componentType2)
                 /\ \A v \in 0..(Len(m_runtimeVariables) - 1) :
                       LET key == At(m_runtimeVariables, v).storage
                       IN  /\ m_variableStorage'[key].dflt = m_variableStorage[key].dflt
                           /\ v # index => m_variableStorage'[key].value = m_variableStorage[key].value]_vars

\* mode has just been set to Slow from "MODE::slow"; x and size hold the
\* values they were given as plain text.
C36_Witness ==
    /\ lastCall.op = "SetRuntimeVariableFromString"
    /\ lastCall.arg = <<3>>
    /\ lastCall.result = <<"M", "O", "D", "E", ":", ":", "s", "l", "o", "w">>
    /\ CurrentValue(Self, 3) = <<1>>
    /\ CurrentValue(Self, 0) = <<7>>
    /\ CurrentValue(Self, 4) = <<3, 4, 5>>

(***************************************************************************)
(* The registries across Compile.                                          *)
(***************************************************************************)
\* C37: a Compile whose graph compile succeeds empties every registry before
\* the first Init action: each Init action is handed a newly constructed
\* record, whatever an earlier Compile or Execute left under that name, and
\* the registries hold afterwards the records of the nodes whose Init ran and
\* no other.  A Compile whose graph compile fails leaves the registries as
\* they were.
C37_RegistriesEmptiedBeforeInit ==
    [][lastCall'.op = "Compile"
          => IF EventsOf(trace', "CreateVariableStorage") # {}
             THEN LET inits == EventsOf(trace', "Init")
                  IN  /\ DOMAIN m_RuntimeData' = {NodeKey(m_renderGraph', trace'[i]) : i \in inits}
                      /\ \E eff \in Effects : \A i \in inits :
                            /\ trace'[i].D = <<OnNodeAction(At(m_renderGraph'.nodes, trace'[i].b),
                                                            DefaultRuntimeData, eff)>>
                            /\ <<m_RuntimeData'[NodeKey(m_renderGraph', trace'[i])]>> = trace'[i].D
             ELSE /\ lastCompileRet' \notin {"OK", "InterpreterError"}
                  /\ EventsOf(trace', "Init") = {}
                  /\ m_RuntimeData' = m_RuntimeData]_vars

\* A re-Compile has handed texture T's Init action a new record although an
\* earlier frame had given T the size that the variable size still holds.
C37_Witness ==
    /\ lastCall.op = "Compile"
    /\ lastCompileRet = "OK"
    /\ CurrentValue(Self, 4) = <<4, 2, 1>>
    /\ m_RuntimeData[<<"Resource_Texture", "T">>] = DefaultRuntimeData
    /\ \E i \in EventsOf(trace, "Init") :
          /\ At(m_renderGraph.nodes, trace[i].b).name = "T"
          /\ trace[i].D = <<DefaultRuntimeData>>

(***************************************************************************)
(* The generated boxblur technique as a state machine: the host creates    *)
(* and destroys contexts, gives a context its input, and executes it.      *)
(***************************************************************************)
InterpreterUntouched ==
    UNCHANGED <<m_compileResult, m_renderGraph, m_runtimeVariables, m_variableStorage,
                m_RuntimeData, lastCompileRet, frames, sinceFresh, files, m_tempDirectory, disk>>

\* Context* context = boxblur::CreateContext(device)
boxblur_CreateContextCall ==
    /\ Len(s_allContexts) < MaxContexts
    /\ \E failAt \in 0..Len(SharedSteps), signatureMade \in BOOLEAN :
         \E r \in {boxblur_CreateContext(s_allContexts, shared, failAt, signatureMade)} :
            /\ s_allContexts' = r.s_allContexts
            /\ shared' = r.shared
            /\ lastCall' = Call("boxblur_CreateContext", r.ret # 0, "", <<r.ret, failAt>>)
    /\ trace' = <<>>
    /\ UNCHANGED gpu
    /\ InterpreterUntouched

\* boxblur::DestroyContext(context), with one of the live contexts or with
\* nullptr (0); ~Context gives up the context's textures.
boxblur_DestroyContextCall ==
    /\ \E id \in IdsOf(s_allContexts) \cup {0} :
         \E r \in {boxblur_DestroyContext(s_allContexts, shared, id)} :
            /\ s_allContexts' = r.s_allContexts
            /\ shared' = r.shared
            /\ gpu' = [k \in {key \in DOMAIN gpu : key[1] # id} |-> gpu[k]]
            /\ lastCall' = Call("boxblur_DestroyContext", TRUE, "", <<id, Len(s_allContexts)>>)
    /\ trace' = <<>>
    /\ InterpreterUntouched

\* The host fills context->m_input: the texture (or none), the state the
\* texture is in, its size, and variable_enabled.  With no texture the other
\* fields are never read, and one value of each stands for all.
boxblur_SetInputCall ==
    /\ \E i \in 1..Len(s_allContexts), texture \in BOOLEAN :
        \E state \in (IF texture THEN {"COMMON", NPSR, UAV, "COPY_DEST"} ELSE {"COMMON"}),
           size \in (IF texture THEN {1, 2} ELSE {0}),
           enabled \in (IF texture THEN BOOLEAN ELSE {TRUE}) :
         \E ctx \in {[s_allContexts[i] EXCEPT !.texture_InputTexture = texture,
                                              !.texture_InputTexture_state = state,
                                              !.texture_InputTexture_size = size,
                                              !.variable_enabled = enabled]} :
            /\ s_allContexts' = [s_allContexts EXCEPT ![i] = ctx]
            /\ gpu' = InState(gpu, InputTexture(ctx), state)
            /\ lastCall' = Call("boxblur_SetInput", TRUE, "", <<ctx.id, 0>>)
    /\ trace' = <<>>
    /\ UNCHANGED shared
    /\ InterpreterUntouched

\* boxblur::Execute(context, device, commandList); the call's argument
\* keeps whether the ping-pong texture was there before the call.
boxblur_ExecuteCall ==
    /\ \E i \in 1..Len(s_allContexts) :
         \E r \in {boxblur_Execute(s_allContexts[i], gpu)} :
            /\ s_allContexts' = [s_allContexts EXCEPT ![i] = r.ctx]
            /\ gpu' = r.gpu
            /\ trace' = r.log
            /\ lastCall' = Call("boxblur_Execute", s_allContexts[i].texture_InputTexture, "",
                                <<r.ctx.id, IF r.ctx = s_allContexts[i] THEN 1 ELSE 0>>)
    /\ UNCHANGED shared
    /\ InterpreterUntouched

NextTechnique ==
    \/ boxblur_CreateContextCall
    \/ boxblur_DestroyContextCall
    \/ boxblur_SetInputCall
    \/ boxblur_ExecuteCall

SpecTechnique == InitFiles({}) /\ [][NextTechnique]_vars

(***************************************************************************)
(* C38: after any sequence of CreateContext and DestroyContext calls, the  *)
(* shared objects of the boxblur technique (root signatures, PSOs,         *)
(* descriptor heaps, command signature) exist if and only if at least one  *)
(* context exists.                                                         *)
(***************************************************************************)
C38_SharedIffContext ==
    /\ Len(s_allContexts) > 0 => shared = AllShared
    /\ Len(s_allContexts) = 0 => shared = {}

\* The rest of C38, call by call: CreateShared runs only when the list is
\* empty (with contexts alive, CreateContext leaves the shared objects alone
\* and cannot fail), a CreateContext that fails registers no context, and
\* DestroyShared runs exactly when DestroyContext leaves the list empty.
C38_CallByCall ==
    [][/\ lastCall'.op = "boxblur_CreateContext" /\ Len(s_allContexts) > 0
            => shared' = shared /\ lastCall'.ret
       /\ lastCall'.op = "boxblur_CreateContext" /\ ~lastCall'.ret
            => s_allContexts' = s_allContexts /\ lastCall'.arg[1] = 0
       /\ lastCall'.op = "boxblur_CreateContext" /\ lastCall'.ret
            => /\ Len(s_allContexts') = Len(s_allContexts) + 1
               /\ s_allContexts'[Len(s_allContexts')].id = lastCall'.arg[1]
       /\ lastCall'.op = "boxblur_DestroyContext"
            => IF Len(s_allContexts') = 0 THEN shared' = {} ELSE shared' = shared]_vars

\* A CreateContext failed at the second step of CreateShared: no context
\* exists, and the root signature of BlurH does.
C38_LeftBehind ==
    /\ lastCall.op = "boxblur_CreateContext"
    /\ ~lastCall.ret
    /\ Len(s_allContexts) = 0
    /\ shared = {"computeShader_BlurH_rootSig"}

(***************************************************************************)
(* C39: in a boxblur Execute with a non-null input texture, every          *)
(* transition barrier recorded has a StateBefore equal to the state the    *)
(* resource is in at that point, whatever state the input texture was      *)
(* given in and whether or not the technique is enabled; at the end the    *)
(* input texture is back in the state it was given in and the ping-pong    *)
(* texture is back in NON_PIXEL_SHADER_RESOURCE, and so it is for every    *)
(* context between calls, which is what the next Execute starts from.      *)
(***************************************************************************)
C39_BarriersMatch ==
    /\ \A i \in 1..Len(s_allContexts) :
          LET ctx == s_allContexts[i]
          IN  /\ ctx.texture_InputTexture =>
                    gpu[InputTexture(ctx)] = ctx.texture_InputTexture_state
              /\ ctx.texture_PingPongTexture => gpu[PingPongTexture(ctx)] = NPSR
    /\ lastCall.op = "boxblur_Execute" /\ lastCall.ret =>
          /\ \A p \in 1..Len(trace) :
                trace[p].e = "Transition" => trace[p].StateBefore = trace[p].was
          /\ \A p \in 1..Len(trace) :
                trace[p].e = "Dispatch" => trace[p].StateBefore = NPSR /\ trace[p].StateAfter = UAV
          /\ \E i \in 1..Len(s_allContexts) :
                /\ s_allContexts[i].id = lastCall.arg[1]
                /\ s_allContexts[i].texture_PingPongTexture
                /\ s_allContexts[i].texture_PingPongTexture_size
                      = s_allContexts[i].texture_InputTexture_size

\* A second Execute of a context (its ping-pong texture was already there)
\* whose input was given in COPY_DEST, with the technique disabled: five
\* transitions and no dispatch, the input back in COPY_DEST.
C39_Witness ==
    /\ lastCall.op = "boxblur_Execute"
    /\ lastCall.ret
    /\ lastCall.arg[2] = 1
    /\ Len(trace) = 5
    /\ \A p \in 1..Len(trace) : trace[p].e = "Transition"
    /\ trace[1].StateBefore = "COPY_DEST"
    /\ trace[5].StateAfter = "COPY_DEST"
    /\ \E i \in 1..Len(s_allContexts) :
          /\ s_allContexts[i].id = lastCall.arg[1]
          /\ ~s_allContexts[i].variable_enabled
          /\ gpu[InputTexture(s_allContexts[i])] = "COPY_DEST"

====
